---- MODULE Spec2Model ----
(***************************************************************************)
(* Model of the datastar SSE event encoder (src/src/generator.rs), its     *)
(* builder-style configuration records (src/src/fragments.rs,              *)
(* src/src/signals.rs, src/src/scripts.rs) and the conversion of a         *)
(* response into an HTTP response (src/src/axum.rs, src/src/response.rs).  *)
(*                                                                         *)
(* Text is modelled as a sequence of chunks.  A chunk is either one of the *)
(* line-break characters NL ("\n") and CR ("\r") or a non-empty piece of   *)
(* text that holds no line break.  String concatenation is sequence        *)
(* concatenation, so everything the code does with line breaks (splitting, *)
(* stripping, terminating) is computed on the model's text as the code     *)
(* computes it on a String.                                                *)
(***************************************************************************)
EXTENDS Integers, Sequences, FiniteSets, TLC

VARIABLES
    cfg,        \* the options record the caller is building (moved into the call)
    call,       \* the generator operation that ran, with its arguments
    stream,     \* the items handed to the Yielder<String>, in order
    response,   \* the HTTP response made by into_response
    panicked,   \* TRUE once an .expect() of a duration setter has panicked
    request,    \* the HTTP request an extractor is run on
    extracted,  \* the Result of the extractor
    reply,      \* the response a rejection was turned into
    pc,         \* where the generator future of a streaming response stands
    slot,       \* the item the yielder holds for the poll_next in progress
    frames,     \* the frames the response body has received
    calls,      \* the generator calls made on this connection, in order
    message,    \* the Result of the last DatastarMessage constructor
    full,       \* the String inside a FullDatastarResponse
    msgs,       \* the messages pushed onto the FullDatastarResponse, in order
    to_string_calls  \* how often serde_json::to_string has been entered

\* The variables of the request extractors.
request_vars == <<request, extracted, reply>>

\* The variables of a streaming response being polled.
stream_vars == <<pc, slot, frames, calls>>

\* The variables of the DatastarMessage constructors.
message_vars == <<message, full, msgs, to_string_calls>>

vars == <<cfg, call, stream, response, panicked, request_vars, stream_vars,
          message_vars>>

NoRequest == [method |-> "none"]
NoExtraction == [kind |-> "none"]
NoReply == [kind |-> "none"]
NoMessage == [kind |-> "none"]

\* Every variable outside the encoder's own at its idle value.
Idle(group) ==
    CASE group = "request" ->
             request = NoRequest /\ extracted = NoExtraction /\ reply = NoReply
      [] group = "stream" ->
             pc = "idle" /\ slot = <<>> /\ frames = <<>> /\ calls = <<>>
      [] group = "message" ->
             /\ message = NoMessage
             /\ full = <<>>
             /\ msgs = <<>>
             /\ to_string_calls = 0

(***************************************************************************)
(* Bounds of the model.                                                    *)
(***************************************************************************)
MaxValueLen == 1      \* chunks in an event id, a selector, a path, an attribute
MaxPayloadLen == 2    \* chunks in a fragment HTML, a signals JSON, a script body
MaxPaths == 2         \* paths given to remove_signals
MaxAttrs == 2         \* attribute() calls on an ExecuteScriptConfig

NL == "\n"
CR == "\r"

StringsUpTo(chunks, n) == UNION {[1..k -> chunks] : k \in 0..n}

ValueChunks == {"a.b", NL}
PayloadChunks == {"<div>hi</div>", NL, CR}

Values == StringsUpTo(ValueChunks, MaxValueLen)
Payloads == StringsUpTo(PayloadChunks, MaxPayloadLen)
\* Paths are drawn from their own chunks, "a.b" and "c" among them.
PathChunks == {"a.b", "c", NL}
PathValues == StringsUpTo(PathChunks, MaxValueLen)
PathLists == StringsUpTo(PathValues, MaxPaths)

(***************************************************************************)
(* Option<T>: None is <<>>, Some(v) is <<v>>.                              *)
(***************************************************************************)
None == <<>>
Some(v) == <<v>>

(***************************************************************************)
(* Numbers.  A millisecond count is kept as thousands * 1000 + units with  *)
(* units in 0..999, which holds every u32 and the u128 results of          *)
(* Duration::as_millis the model uses within TLC's 32-bit integers.       *)
(***************************************************************************)
DEFAULT_RETRY_DURATION == 1000
DEFAULT_SETTLE_DURATION == 300

U32_MAX_THOUSANDS == 4294967    \* u32::MAX = 4294967 * 1000 + 295
U32_MAX_UNITS == 295

Millis(n) == [thousands |-> n \div 1000, units |-> n % 1000]

\* The millisecond count rounded to the nearest millisecond.
as_millis_Rounded(d) ==
    LET total == d.nanos + 500000
    IN [thousands |-> d.secs + (total \div 1000000000),
        units |-> (total \div 1000000) % 1000]

\* Duration::as_millis: whole milliseconds, the sub-millisecond part dropped.
as_millis(d) == [thousands |-> d.secs, units |-> d.nanos \div 1000000]

\* The range test with the upper limit left out.
try_into_u32_ok_Exclusive(ms) ==
    \/ ms.thousands < U32_MAX_THOUSANDS
    \/ ms.thousands = U32_MAX_THOUSANDS /\ ms.units < U32_MAX_UNITS

\* u32::try_from(u128) succeeds exactly up to u32::MAX.
try_into_u32_ok(ms) ==
    \/ ms.thousands < U32_MAX_THOUSANDS
    \/ ms.thousands = U32_MAX_THOUSANDS /\ ms.units <= U32_MAX_UNITS

Pad3(n) ==
    IF n < 10 THEN "00" \o ToString(n)
    ELSE IF n < 100 THEN "0" \o ToString(n)
    ELSE ToString(n)

\* u32::to_string: the decimal digits, one chunk of text.
to_string(ms) ==
    IF ms.thousands = 0 THEN <<ToString(ms.units)>>
    ELSE <<ToString(ms.thousands) \o Pad3(ms.units)>>

\* The Duration arguments the model passes to the duration setters:
\* 300 ms, 300 ms + 500 us, 1 s - 1 ns, 1 s, 1 s + 500 us, u32::MAX ms and
\* u32::MAX ms + 1 ms.
Durations ==
    { [secs |-> 0, nanos |-> 300000000],
      [secs |-> 0, nanos |-> 300500000],
      [secs |-> 0, nanos |-> 999999999],
      [secs |-> 1, nanos |-> 0],
      [secs |-> 1, nanos |-> 500000],
      [secs |-> 4294967, nanos |-> 295000000],
      [secs |-> 4294967, nanos |-> 296000000] }

(***************************************************************************)
(* FragmentMergeMode                                                       *)
(***************************************************************************)
FragmentMergeMode ==
    {"Morph", "Inner", "Outer", "Prepend", "Append", "Before", "After",
     "UpsertAttributes"}

as_datastar_name(mode) ==
    CASE mode = "Morph" -> "morph"
      [] mode = "Inner" -> "inner"
      [] mode = "Outer" -> "outer"
      [] mode = "Prepend" -> "prepend"
      [] mode = "Append" -> "append"
      [] mode = "Before" -> "before"
      [] mode = "After" -> "after"
      [] mode = "UpsertAttributes" -> "upsertAttributes"

(***************************************************************************)
(* The options records and their Default impls.                            *)
(***************************************************************************)
NoConfig == [kind |-> "none"]

MergeFragmentsConfig_default ==
    [kind |-> "MergeFragmentsConfig",
     merge_mode |-> "Morph",
     selector |-> None,
     settle_duration |-> Millis(DEFAULT_SETTLE_DURATION),
     use_view_transition |-> FALSE,
     event_id |-> None,
     retry_duration |-> Millis(DEFAULT_RETRY_DURATION)]

RemoveFragmentsConfig_default ==
    [kind |-> "RemoveFragmentsConfig",
     settle_duration |-> Millis(DEFAULT_SETTLE_DURATION),
     use_view_transition |-> FALSE,
     event_id |-> None,
     retry_duration |-> Millis(DEFAULT_RETRY_DURATION)]

MergeSignalsConfig_default ==
    [kind |-> "MergeSignalsConfig",
     only_if_missing |-> FALSE,
     event_id |-> None,
     retry_duration |-> Millis(DEFAULT_RETRY_DURATION)]

RemoveSignalsConfig_default ==
    [kind |-> "RemoveSignalsConfig",
     event_id |-> None,
     retry_duration |-> Millis(DEFAULT_RETRY_DURATION)]

ExecuteScriptConfig_default ==
    [kind |-> "ExecuteScriptConfig",
     auto_remove |-> FALSE,
     attributes |-> <<>>,
     event_id |-> None,
     retry_duration |-> Millis(DEFAULT_RETRY_DURATION)]

(***************************************************************************)
(* str::lines as the generator uses it: the text is cut after every "\n",  *)
(* each piece loses its "\n" and then a "\r" that stood before that "\n";  *)
(* a last piece without "\n" is kept as it is, and there is no empty piece *)
(* after a final "\n".                                                     *)
(***************************************************************************)
FirstNL(s) ==
    IF \E i \in 1..Len(s) : s[i] = NL
    THEN CHOOSE i \in 1..Len(s) : s[i] = NL /\ \A j \in 1..(i - 1) : s[j] # NL
    ELSE 0

RECURSIVE split_inclusive(_)
split_inclusive(s) ==
    IF s = <<>> THEN <<>>
    ELSE IF FirstNL(s) = 0 THEN <<s>>
    ELSE <<SubSeq(s, 1, FirstNL(s))>>
             \o split_inclusive(SubSeq(s, FirstNL(s) + 1, Len(s)))

strip_line_ending(line) ==
    IF line[Len(line)] # NL THEN line
    ELSE LET l1 == SubSeq(line, 1, Len(line) - 1)
         IN IF l1 # <<>> /\ l1[Len(l1)] = CR
            THEN SubSeq(l1, 1, Len(l1) - 1)
            ELSE l1

\* The text split at every "\n", an empty piece after a final "\n" included
\* and a "\r" before the "\n" kept: what str::split('\n') would give.
RECURSIVE split_on_newline(_)
split_on_newline(s) ==
    IF FirstNL(s) = 0 THEN <<s>>
    ELSE <<SubSeq(s, 1, FirstNL(s) - 1)>>
             \o split_on_newline(SubSeq(s, FirstNL(s) + 1, Len(s)))

lines_SplitOnNewline(s) == split_on_newline(s)

lines(s) ==
    [i \in 1..Len(split_inclusive(s)) |-> strip_line_ending(split_inclusive(s)[i])]

(***************************************************************************)
(* ServerSentEventGenerator                                                *)
(***************************************************************************)
MERGE_FRAGMENTS == "datastar-merge-fragments"
MERGE_SIGNALS == "datastar-merge-signals"
REMOVE_FRAGMENTS == "datastar-remove-fragments"
REMOVE_SIGNALS == "datastar-remove-signals"
EXECUTE_SCRIPT == "datastar-execute-script"

\* One (key, value) element of data_pairs.
Pair(k, v) == [key |-> k, value |-> v]

\* format!("data: {k} {v}\n") of every pair, appended in order.
RECURSIVE extend_data(_, _)
extend_data(event, data_pairs) ==
    IF data_pairs = <<>> THEN event
    ELSE extend_data(
             event \o <<"data: ", Head(data_pairs).key, " ">>
                   \o Head(data_pairs).value \o <<NL>>,
             Tail(data_pairs))

\* send with the id line pushed after the retryDuration line.
send_IdAfterRetry(event_type, data_pairs, event_id, retry_duration) ==
    LET event0 == <<"event: ", event_type, NL>>
        event1 == IF retry_duration # Millis(DEFAULT_RETRY_DURATION)
                  THEN event0 \o <<"retryDuration: ">> \o to_string(retry_duration)
                              \o <<NL>>
                  ELSE event0
        event2 == IF event_id # None
                  THEN event1 \o <<"id: ">> \o event_id[1] \o <<NL>>
                  ELSE event1
        event3 == extend_data(event2, data_pairs)
    IN event3 \o <<NL>>

\* send with retry_duration compared against the settle default.
send_RetryAgainstSettleDefault(event_type, data_pairs, event_id, retry_duration) ==
    LET event0 == <<"event: ", event_type, NL>>
        event1 == IF event_id # None
                  THEN event0 \o <<"id: ">> \o event_id[1] \o <<NL>>
                  ELSE event0
        event2 == IF retry_duration # Millis(DEFAULT_SETTLE_DURATION)
                  THEN event1 \o <<"retryDuration: ">> \o to_string(retry_duration)
                              \o <<NL>>
                  ELSE event1
        event3 == extend_data(event2, data_pairs)
    IN event3 \o <<NL>>

\* send that yields the event before the closing line break is pushed.
send_YieldBeforeTerminator(event_type, data_pairs, event_id, retry_duration) ==
    LET event0 == <<"event: ", event_type, NL>>
        event1 == IF event_id # None
                  THEN event0 \o <<"id: ">> \o event_id[1] \o <<NL>>
                  ELSE event0
        event2 == IF retry_duration # Millis(DEFAULT_RETRY_DURATION)
                  THEN event1 \o <<"retryDuration: ">> \o to_string(retry_duration)
                              \o <<NL>>
                  ELSE event1
    IN extend_data(event2, data_pairs)

\* send of a generator that remembers having sent an id: only the first
\* event on the stream carries its id line.
send_IdOnlyOnFirst(event_type, data_pairs, event_id, retry_duration) ==
    LET event0 == <<"event: ", event_type, NL>>
        event1 == IF event_id # None /\ stream = <<>>
                  THEN event0 \o <<"id: ">> \o event_id[1] \o <<NL>>
                  ELSE event0
        event2 == IF retry_duration # Millis(DEFAULT_RETRY_DURATION)
                  THEN event1 \o <<"retryDuration: ">> \o to_string(retry_duration)
                              \o <<NL>>
                  ELSE event1
        event3 == extend_data(event2, data_pairs)
    IN event3 \o <<NL>>

\* The String that send builds and hands to yielder.yield_item.
send(event_type, data_pairs, event_id, retry_duration) ==
    LET event0 == <<"event: ", event_type, NL>>
        event1 == IF event_id # None
                  THEN event0 \o <<"id: ">> \o event_id[1] \o <<NL>>
                  ELSE event0
        event2 == IF retry_duration # Millis(DEFAULT_RETRY_DURATION)
                  THEN event1 \o <<"retryDuration: ">> \o to_string(retry_duration)
                              \o <<NL>>
                  ELSE event1
        event3 == extend_data(event2, data_pairs)
    IN event3 \o <<NL>>

PairsOf(k, vs) == [i \in 1..Len(vs) |-> Pair(k, vs[i])]

\* merge_fragments with the selector pushed before the merge mode.
merge_fragments_SelectorFirst(fragments, c) ==
    LET p1 == IF c.selector # None
              THEN <<Pair("selector", c.selector[1])>>
              ELSE <<>>
        p2 == IF c.merge_mode # "Morph"
              THEN p1 \o <<Pair("mergeMode", <<as_datastar_name(c.merge_mode)>>)>>
              ELSE p1
        p3 == IF c.settle_duration # Millis(DEFAULT_SETTLE_DURATION)
              THEN p2 \o <<Pair("settleDuration", to_string(c.settle_duration))>>
              ELSE p2
        p4 == IF c.use_view_transition
              THEN p3 \o <<Pair("useViewTransition", <<"true">>)>>
              ELSE p3
        p5 == p4 \o PairsOf("fragments", lines(fragments))
    IN send(MERGE_FRAGMENTS, p5, c.event_id, c.retry_duration)

merge_fragments(fragments, c) ==
    LET p1 == IF c.merge_mode # "Morph"
              THEN <<Pair("mergeMode", <<as_datastar_name(c.merge_mode)>>)>>
              ELSE <<>>
        p2 == IF c.selector # None
              THEN p1 \o <<Pair("selector", c.selector[1])>>
              ELSE p1
        p3 == IF c.settle_duration # Millis(DEFAULT_SETTLE_DURATION)
              THEN p2 \o <<Pair("settleDuration", to_string(c.settle_duration))>>
              ELSE p2
        p4 == IF c.use_view_transition
              THEN p3 \o <<Pair("useViewTransition", <<"true">>)>>
              ELSE p3
        p5 == p4 \o PairsOf("fragments", lines(fragments))
    IN send(MERGE_FRAGMENTS, p5, c.event_id, c.retry_duration)

\* remove_fragments with the selector pushed last.
remove_fragments_SelectorLast(selector, c) ==
    LET p1 == IF c.settle_duration # Millis(DEFAULT_SETTLE_DURATION)
              THEN <<Pair("settleDuration", to_string(c.settle_duration))>>
              ELSE <<>>
        p2 == IF c.use_view_transition
              THEN p1 \o <<Pair("useViewTransition", <<"true">>)>>
              ELSE p1
        p3 == p2 \o <<Pair("selector", selector)>>
    IN send(REMOVE_FRAGMENTS, p3, c.event_id, c.retry_duration)

remove_fragments(selector, c) ==
    LET p1 == <<Pair("selector", selector)>>
        p2 == IF c.settle_duration # Millis(DEFAULT_SETTLE_DURATION)
              THEN p1 \o <<Pair("settleDuration", to_string(c.settle_duration))>>
              ELSE p1
        p3 == IF c.use_view_transition
              THEN p2 \o <<Pair("useViewTransition", <<"true">>)>>
              ELSE p2
    IN send(REMOVE_FRAGMENTS, p3, c.event_id, c.retry_duration)

\* merge_signals with the signals text pushed as one pair, not split into lines.
merge_signals_Unsplit(signals, c) ==
    LET p1 == IF c.only_if_missing
              THEN <<Pair("onlyIfMissing", <<"true">>)>>
              ELSE <<>>
        p2 == p1 \o <<Pair("signals", signals)>>
    IN send(MERGE_SIGNALS, p2, c.event_id, c.retry_duration)

merge_signals(signals, c) ==
    LET p1 == IF c.only_if_missing
              THEN <<Pair("onlyIfMissing", <<"true">>)>>
              ELSE <<>>
        p2 == p1 \o PairsOf("signals", lines(signals))
    IN send(MERGE_SIGNALS, p2, c.event_id, c.retry_duration)

\* remove_signals walking the paths from the last to the first.
remove_signals_Reversed(paths, c) ==
    send(REMOVE_SIGNALS,
         [i \in 1..Len(paths) |-> Pair("paths", paths[Len(paths) + 1 - i])],
         c.event_id, c.retry_duration)

remove_signals(paths, c) ==
    send(REMOVE_SIGNALS, PairsOf("paths", paths), c.event_id, c.retry_duration)

\* execute_script with the auto_remove test inverted.
execute_script_AutoRemoveInverted(script, c) ==
    LET p1 == IF c.auto_remove
              THEN <<Pair("autoRemove", <<"true">>)>>
              ELSE <<>>
        p2 == p1 \o PairsOf("attributes", c.attributes)
        p3 == p2 \o PairsOf("script", lines(script))
    IN send(EXECUTE_SCRIPT, p3, c.event_id, c.retry_duration)

execute_script(script, c) ==
    LET p1 == IF ~c.auto_remove
              THEN <<Pair("autoRemove", <<"false">>)>>
              ELSE <<>>
        p2 == p1 \o PairsOf("attributes", c.attributes)
        p3 == p2 \o PairsOf("script", lines(script))
    IN send(EXECUTE_SCRIPT, p3, c.event_id, c.retry_duration)

(***************************************************************************)
(* into_response: the header arrays of the three response types.           *)
(***************************************************************************)
NoResponse == [kind |-> "none"]

DatastarResponse_headers ==
    << <<"cache-control", "nocache">>,
       <<"connection", "keep-alive">>,
       <<"content-type", "text/event-stream">> >>

FullDatastarResponse_headers ==
    << <<"cache-control", "no-cache">>,
       <<"content-type", "text/event-stream">>,
       <<"connection", "keep-alive">> >>

StreamingDatastarResponse_headers ==
    << <<"cache-control", "no-cache">>,
       <<"content-type", "text/event-stream">>,
       <<"connection", "keep-alive">> >>

(***************************************************************************)
(* The state machine.  A handler returns its response, into_response makes *)
(* the HTTP response, and the body then drives the generator closure: the  *)
(* closure builds an options record with the fluent setters and moves it   *)
(* into one generator operation, which yields one block.                   *)
(***************************************************************************)
NoCall == [op |-> "none"]

Init ==
    /\ cfg = NoConfig
    /\ call = NoCall
    /\ stream = <<>>
    /\ response = NoResponse
    /\ panicked = FALSE
    /\ Idle("request")
    /\ Idle("stream")
    /\ Idle("message")

\* impl IntoResponse for DatastarResponse<S>
DatastarResponse_into_response ==
    /\ response = NoResponse
    /\ response' = [kind |-> "DatastarResponse", headers |-> DatastarResponse_headers]
    /\ UNCHANGED <<cfg, call, stream, panicked, request_vars, stream_vars, message_vars>>

\* impl IntoResponse for FullDatastarResponse
FullDatastarResponse_into_response ==
    /\ response = NoResponse
    /\ response' = [kind |-> "FullDatastarResponse",
                    headers |-> FullDatastarResponse_headers]
    /\ UNCHANGED <<cfg, call, stream, panicked, request_vars, stream_vars, message_vars>>

\* impl IntoResponse for StreamingDatastarResponse<S>
StreamingDatastarResponse_into_response ==
    /\ response = NoResponse
    /\ response' = [kind |-> "StreamingDatastarResponse",
                    headers |-> StreamingDatastarResponse_headers]
    /\ UNCHANGED <<cfg, call, stream, panicked, request_vars, stream_vars, message_vars>>

\* The generator closure is running and has not yet yielded.
Running ==
    /\ ~panicked
    /\ response.kind = "DatastarResponse"
    /\ stream = <<>>

Building(kind) == Running /\ cfg.kind = kind

\* Config::new() of each of the five records.
MergeFragmentsConfig_new ==
    /\ Building("none")
    /\ cfg' = MergeFragmentsConfig_default
    /\ UNCHANGED <<call, stream, response, panicked, request_vars, stream_vars, message_vars>>

RemoveFragmentsConfig_new ==
    /\ Building("none")
    /\ cfg' = RemoveFragmentsConfig_default
    /\ UNCHANGED <<call, stream, response, panicked, request_vars, stream_vars, message_vars>>

MergeSignalsConfig_new ==
    /\ Building("none")
    /\ cfg' = MergeSignalsConfig_default
    /\ UNCHANGED <<call, stream, response, panicked, request_vars, stream_vars, message_vars>>

RemoveSignalsConfig_new ==
    /\ Building("none")
    /\ cfg' = RemoveSignalsConfig_default
    /\ UNCHANGED <<call, stream, response, panicked, request_vars, stream_vars, message_vars>>

ExecuteScriptConfig_new ==
    /\ Building("none")
    /\ cfg' = ExecuteScriptConfig_default
    /\ UNCHANGED <<call, stream, response, panicked, request_vars, stream_vars, message_vars>>

\* An event_id setter that also puts the retry duration back to its default.
with_event_id_ResetsRetry(c, event_id) ==
    [c EXCEPT !.event_id = Some(event_id), !.retry_duration = Millis(DEFAULT_RETRY_DURATION)]

\* self.event_id = Some(event_id.into())
with_event_id(c, event_id) == [c EXCEPT !.event_id = Some(event_id)]

\* self.<field> = duration.as_millis().try_into().expect(..): the stored u32, or
\* a panic when the millisecond count does not fit a u32.
SetDuration(kind, field, duration) ==
    /\ Building(kind)
    /\ IF try_into_u32_ok(as_millis(duration))
       THEN /\ cfg' = [cfg EXCEPT ![field] = as_millis(duration)]
            /\ UNCHANGED panicked
       ELSE /\ panicked' = TRUE
            /\ UNCHANGED cfg
    /\ UNCHANGED <<call, stream, response, request_vars, stream_vars, message_vars>>

\* The setters of MergeFragmentsConfig.
MergeFragmentsConfig_merge_mode ==
    /\ Building("MergeFragmentsConfig")
    /\ \E merge_mode \in FragmentMergeMode :
           cfg' = [cfg EXCEPT !.merge_mode = merge_mode]
    /\ UNCHANGED <<call, stream, response, panicked, request_vars, stream_vars, message_vars>>

MergeFragmentsConfig_selector ==
    /\ Building("MergeFragmentsConfig")
    /\ \E selector \in Values : cfg' = [cfg EXCEPT !.selector = Some(selector)]
    /\ UNCHANGED <<call, stream, response, panicked, request_vars, stream_vars, message_vars>>

MergeFragmentsConfig_settle_duration ==
    \E settle_duration \in Durations :
        SetDuration("MergeFragmentsConfig", "settle_duration", settle_duration)

MergeFragmentsConfig_use_view_transition ==
    /\ Building("MergeFragmentsConfig")
    /\ \E use_view_transition \in BOOLEAN :
           cfg' = [cfg EXCEPT !.use_view_transition = use_view_transition]
    /\ UNCHANGED <<call, stream, response, panicked, request_vars, stream_vars, message_vars>>

MergeFragmentsConfig_event_id ==
    /\ Building("MergeFragmentsConfig")
    /\ \E event_id \in Values : cfg' = with_event_id(cfg, event_id)
    /\ UNCHANGED <<call, stream, response, panicked, request_vars, stream_vars, message_vars>>

MergeFragmentsConfig_retry_duration ==
    \E retry_duration \in Durations :
        SetDuration("MergeFragmentsConfig", "retry_duration", retry_duration)

\* The setters of RemoveFragmentsConfig.
RemoveFragmentsConfig_settle_duration ==
    \E settle_duration \in Durations :
        SetDuration("RemoveFragmentsConfig", "settle_duration", settle_duration)

RemoveFragmentsConfig_use_view_transition ==
    /\ Building("RemoveFragmentsConfig")
    /\ \E use_view_transition \in BOOLEAN :
           cfg' = [cfg EXCEPT !.use_view_transition = use_view_transition]
    /\ UNCHANGED <<call, stream, response, panicked, request_vars, stream_vars, message_vars>>

RemoveFragmentsConfig_event_id ==
    /\ Building("RemoveFragmentsConfig")
    /\ \E event_id \in Values : cfg' = with_event_id(cfg, event_id)
    /\ UNCHANGED <<call, stream, response, panicked, request_vars, stream_vars, message_vars>>

RemoveFragmentsConfig_retry_duration ==
    \E retry_duration \in Durations :
        SetDuration("RemoveFragmentsConfig", "retry_duration", retry_duration)

\* The setters of MergeSignalsConfig.
MergeSignalsConfig_only_if_missing ==
    /\ Building("MergeSignalsConfig")
    /\ \E only_if_missing \in BOOLEAN :
           cfg' = [cfg EXCEPT !.only_if_missing = only_if_missing]
    /\ UNCHANGED <<call, stream, response, panicked, request_vars, stream_vars, message_vars>>

MergeSignalsConfig_event_id ==
    /\ Building("MergeSignalsConfig")
    /\ \E event_id \in Values : cfg' = with_event_id(cfg, event_id)
    /\ UNCHANGED <<call, stream, response, panicked, request_vars, stream_vars, message_vars>>

MergeSignalsConfig_retry_duration ==
    \E retry_duration \in Durations :
        SetDuration("MergeSignalsConfig", "retry_duration", retry_duration)

\* The setters of RemoveSignalsConfig.
RemoveSignalsConfig_event_id ==
    /\ Building("RemoveSignalsConfig")
    /\ \E event_id \in Values : cfg' = with_event_id(cfg, event_id)
    /\ UNCHANGED <<call, stream, response, panicked, request_vars, stream_vars, message_vars>>

RemoveSignalsConfig_retry_duration ==
    \E retry_duration \in Durations :
        SetDuration("RemoveSignalsConfig", "retry_duration", retry_duration)

\* The setters of ExecuteScriptConfig.
ExecuteScriptConfig_auto_remove ==
    /\ Building("ExecuteScriptConfig")
    /\ \E auto_remove \in BOOLEAN : cfg' = [cfg EXCEPT !.auto_remove = auto_remove]
    /\ UNCHANGED <<call, stream, response, panicked, request_vars, stream_vars, message_vars>>

ExecuteScriptConfig_attribute ==
    /\ Building("ExecuteScriptConfig")
    /\ Len(cfg.attributes) < MaxAttrs
    /\ \E attribute \in Values :
           cfg' = [cfg EXCEPT !.attributes = Append(@, attribute)]
    /\ UNCHANGED <<call, stream, response, panicked, request_vars, stream_vars, message_vars>>

ExecuteScriptConfig_event_id ==
    /\ Building("ExecuteScriptConfig")
    /\ \E event_id \in Values : cfg' = with_event_id(cfg, event_id)
    /\ UNCHANGED <<call, stream, response, panicked, request_vars, stream_vars, message_vars>>

ExecuteScriptConfig_retry_duration ==
    \E retry_duration \in Durations :
        SetDuration("ExecuteScriptConfig", "retry_duration", retry_duration)

\* A generator operation: the options record is moved into the call, the block
\* is built and handed to the yielder.
Yield(op, arg, block) ==
    /\ call' = [op |-> op, arg |-> arg, config |-> cfg]
    /\ stream' = Append(stream, block)
    /\ cfg' = NoConfig
    /\ UNCHANGED <<response, panicked, request_vars, stream_vars, message_vars>>

MergeFragments ==
    /\ Building("MergeFragmentsConfig")
    /\ \E fragments \in Payloads :
           Yield("merge_fragments", fragments, merge_fragments(fragments, cfg))

RemoveFragments ==
    /\ Building("RemoveFragmentsConfig")
    /\ \E selector \in Values :
           Yield("remove_fragments", selector, remove_fragments(selector, cfg))

MergeSignals ==
    /\ Building("MergeSignalsConfig")
    /\ \E signals \in Payloads :
           Yield("merge_signals", signals, merge_signals(signals, cfg))

RemoveSignals ==
    /\ Building("RemoveSignalsConfig")
    /\ \E paths \in PathLists :
           Yield("remove_signals", paths, remove_signals(paths, cfg))

ExecuteScript ==
    /\ Building("ExecuteScriptConfig")
    /\ \E script \in Payloads :
           Yield("execute_script", script, execute_script(script, cfg))

Next ==
    \/ DatastarResponse_into_response
    \/ FullDatastarResponse_into_response
    \/ StreamingDatastarResponse_into_response
    \/ MergeFragmentsConfig_new
    \/ RemoveFragmentsConfig_new
    \/ MergeSignalsConfig_new
    \/ RemoveSignalsConfig_new
    \/ ExecuteScriptConfig_new
    \/ MergeFragmentsConfig_merge_mode
    \/ MergeFragmentsConfig_selector
    \/ MergeFragmentsConfig_settle_duration
    \/ MergeFragmentsConfig_use_view_transition
    \/ MergeFragmentsConfig_event_id
    \/ MergeFragmentsConfig_retry_duration
    \/ RemoveFragmentsConfig_settle_duration
    \/ RemoveFragmentsConfig_use_view_transition
    \/ RemoveFragmentsConfig_event_id
    \/ RemoveFragmentsConfig_retry_duration
    \/ MergeSignalsConfig_only_if_missing
    \/ MergeSignalsConfig_event_id
    \/ MergeSignalsConfig_retry_duration
    \/ RemoveSignalsConfig_event_id
    \/ RemoveSignalsConfig_retry_duration
    \/ ExecuteScriptConfig_auto_remove
    \/ ExecuteScriptConfig_attribute
    \/ ExecuteScriptConfig_event_id
    \/ ExecuteScriptConfig_retry_duration
    \/ MergeFragments
    \/ RemoveFragments
    \/ MergeSignals
    \/ RemoveSignals
    \/ ExecuteScript

Spec == Init /\ [][Next]_vars

(***************************************************************************)
(* Reading a block: the vocabulary of the properties below.                *)
(***************************************************************************)
Called == call.op # "none"

\* The one block the call handed to the yielder.
Block == stream[1]

EventName(op) ==
    CASE op = "merge_fragments" -> "datastar-merge-fragments"
      [] op = "remove_fragments" -> "datastar-remove-fragments"
      [] op = "merge_signals" -> "datastar-merge-signals"
      [] op = "remove_signals" -> "datastar-remove-signals"
      [] op = "execute_script" -> "datastar-execute-script"

IsPrefix(p, s) == Len(p) <= Len(s) /\ SubSeq(s, 1, Len(p)) = p

Positions(b, chunk) == {i \in 1..Len(b) : b[i] = chunk}

\* An empty line starts at i: a line break at the start of the text or right
\* after another line break.
BlankLineAt(b, i) == b[i] = NL /\ (i = 1 \/ b[i - 1] = NL)

HasLineBreak(text) == \E i \in 1..Len(text) : text[i] \in {NL, CR}

\* C1: every block of the five generator operations ends with exactly one
\* blank line and holds no blank line before it, whatever the event id, the
\* selector, the paths, the attributes and the payload are, line breaks in
\* them included.
C1_BlockEndsWithOneBlankLine ==
    Called =>
        /\ Len(Block) >= 2
        /\ BlankLineAt(Block, Len(Block))
        /\ \A i \in 1..(Len(Block) - 1) : ~BlankLineAt(Block, i)

\* Config::new() of the record the operation takes.
NewConfigOf(op) ==
    CASE op = "merge_fragments" -> MergeFragmentsConfig_default
      [] op = "remove_fragments" -> RemoveFragmentsConfig_default
      [] op = "merge_signals" -> MergeSignalsConfig_default
      [] op = "remove_signals" -> RemoveSignalsConfig_default
      [] op = "execute_script" -> ExecuteScriptConfig_default

\* The key of the lines an operation always emits.
RequiredKey(op) ==
    CASE op = "merge_fragments" -> "fragments"
      [] op = "remove_fragments" -> "selector"
      [] op = "merge_signals" -> "signals"
      [] op = "remove_signals" -> "paths"
      [] op = "execute_script" -> "script"

\* C2: called with Config::new(), each of the five operations emits no
\* optional line: after the event line there are only the required data lines
\* and the terminating blank line.
C2_DefaultsEmitNoOptionalLine ==
    (Called /\ call.config = NewConfigOf(call.op)) =>
        /\ IsPrefix(<<"event: ", EventName(call.op), NL>>, Block)
        /\ Positions(Block, "id: ") = {}
        /\ Positions(Block, "retryDuration: ") = {}
        /\ \A i \in Positions(Block, "data: ") : Block[i + 1] = RequiredKey(call.op)

\* The protocol's documented defaults, for the fields a record has.
HoldsProtocolDefaults(c) ==
    /\ ("settle_duration" \in DOMAIN c) => c.settle_duration = Millis(300)
    /\ c.retry_duration = Millis(1000)
    /\ ("merge_mode" \in DOMAIN c) => c.merge_mode = "Morph"
    /\ ("auto_remove" \in DOMAIN c) => c.auto_remove = TRUE
    /\ ("only_if_missing" \in DOMAIN c) => c.only_if_missing = FALSE
    /\ ("use_view_transition" \in DOMAIN c) => c.use_view_transition = FALSE
    /\ c.event_id = None
    /\ ("selector" \in DOMAIN c) => c.selector = None
    /\ ("attributes" \in DOMAIN c) => c.attributes = <<>>

\* C3: a freshly constructed options record of each kind holds the protocol
\* defaults (settle 300, retry 1000, Morph, autoRemove true, onlyIfMissing
\* false, view transition false, no event id, no selector, no attributes).
C3_NewConfigHoldsProtocolDefaults ==
    [][(cfg.kind = "none" /\ cfg'.kind # "none") => HoldsProtocolDefaults(cfg')]_vars

HeaderSet(headers) == {headers[i] : i \in 1..Len(headers)}

\* C4: every into_response sets exactly Cache-Control: no-cache,
\* Connection: keep-alive and Content-Type: text/event-stream.
C4_ResponseHeadersFixed ==
    response.kind # "none" =>
        HeaderSet(response.headers) =
            { <<"cache-control", "no-cache">>,
              <<"connection", "keep-alive">>,
              <<"content-type", "text/event-stream">> }

\* The text of the event line, and of the id line the record asks for.
EventLine(op) == <<"event: ", EventName(op), NL>>

IdLine(c) == IF c.event_id # None THEN <<"id: ">> \o c.event_id[1] \o <<NL>> ELSE <<>>

\* C5: with event_id set to a non-empty v, `id: v` is the second line of the
\* block, right after the event line; with event_id unset the block holds no
\* id line.
C5_IdLineFollowsEventLine ==
    Called =>
        LET e == call.config.event_id
        IN /\ (e # None /\ e[1] # <<>>) =>
                  /\ IsPrefix(EventLine(call.op) \o <<"id: ">> \o e[1] \o <<NL>>, Block)
                  /\ Positions(Block, "id: ") = {Len(EventLine(call.op)) + 1}
           /\ (e = None) => Positions(Block, "id: ") = {}

C5_Witness ==
    /\ Called
    /\ call.config.event_id = Some(<<"a.b">>)
    /\ call.config.retry_duration # Millis(1000)
    /\ IsPrefix(EventLine(call.op) \o <<"id: ", "a.b", NL>>, Block)

\* C6: `retryDuration: <ms>` is emitted exactly when retry_duration is not
\* 1000; it follows the id line (the event line when there is no id), and
\* both header lines stand before every data line.
C6_RetryLineIffNotDefault ==
    Called =>
        LET c == call.config
            head == EventLine(call.op) \o IdLine(c)
        IN /\ (c.retry_duration # Millis(1000)) =>
                  /\ IsPrefix(head \o <<"retryDuration: ">> \o to_string(c.retry_duration)
                                   \o <<NL>>, Block)
                  /\ Positions(Block, "retryDuration: ") = {Len(head) + 1}
           /\ (c.retry_duration = Millis(1000)) =>
                  Positions(Block, "retryDuration: ") = {}
           /\ \A i \in Positions(Block, "id: ") \cup Positions(Block, "retryDuration: ") :
                  \A j \in Positions(Block, "data: ") : i < j

C6_Witness ==
    /\ Called
    /\ call.config.event_id # None
    /\ call.config.retry_duration = [thousands |-> 4294967, units |-> 295]
    /\ Positions(Block, "data: ") # {}
    /\ \E i \in Positions(Block, "retryDuration: ") : Block[i + 1] = "4294967295"

(***************************************************************************)
(* The data lines of a block, read back from its text: every `data: ` that *)
(* starts a line opens an entry `data: <key> <value>\n`, which runs up to  *)
(* the next entry or up to the terminating line break of the block.        *)
(***************************************************************************)
RECURSIVE Ascending(_)
Ascending(S) ==
    IF S = {} THEN <<>>
    ELSE LET m == CHOOSE x \in S : \A y \in S : x <= y
         IN <<m>> \o Ascending(S \ {m})

DataLines(b) ==
    LET at == Ascending(Positions(b, "data: "))
    IN [j \in 1..Len(at) |->
           LET end == IF j < Len(at) THEN at[j + 1] - 1 ELSE Len(b) - 1
           IN [key |-> b[at[j] + 1], value |-> SubSeq(b, at[j] + 3, end - 1)]]

\* Every entry is `data: `, a key, one space, a value and a line break, the
\* entries follow the header lines and the block ends with a line break.
DataLinesWellFormed(b, head) ==
    LET at == Ascending(Positions(b, "data: "))
    IN /\ b[Len(b)] = NL
       /\ IF at = <<>> THEN Len(b) = Len(head) + 1 ELSE at[1] = Len(head) + 1
       /\ \A j \in 1..Len(at) :
              /\ b[at[j] + 2] = " "
              /\ b[(IF j < Len(at) THEN at[j + 1] ELSE Len(b)) - 1] = NL

\* The header lines the record asks for.
HeaderLines(op, c) ==
    EventLine(op) \o IdLine(c)
        \o (IF c.retry_duration # Millis(1000)
            THEN <<"retryDuration: ">> \o to_string(c.retry_duration) \o <<NL>>
            ELSE <<>>)

Line(k, v) == [key |-> k, value |-> v]

LinesOf(k, vs) == [i \in 1..Len(vs) |-> Line(k, vs[i])]

When(cond, entry) == IF cond THEN <<entry>> ELSE <<>>

\* The text as one string.
RECURSIVE Flatten(_)
Flatten(text) == IF text = <<>> THEN "" ELSE Head(text) \o Flatten(Tail(text))

\* C7: merge_fragments emits a datastar-merge-fragments block whose data
\* lines are, in order, mergeMode (mode not Morph), selector (when set),
\* settleDuration (not 300), useViewTransition true (flag set) and one
\* fragments line per line of html; with defaults and "<div>hi</div>" the
\* block is "event: datastar-merge-fragments\ndata: fragments <div>hi</div>\n\n".
C7_MergeFragmentsLines ==
    (Called /\ call.op = "merge_fragments") =>
        LET c == call.config
        IN /\ IsPrefix(<<"event: ", "datastar-merge-fragments", NL>>, Block)
           /\ DataLinesWellFormed(Block, HeaderLines(call.op, c))
           /\ DataLines(Block) =
                  When(c.merge_mode # "Morph",
                       Line("mergeMode", <<as_datastar_name(c.merge_mode)>>))
                  \o When(c.selector # None, Line("selector", c.selector[1]))
                  \o When(c.settle_duration # Millis(300),
                          Line("settleDuration", to_string(c.settle_duration)))
                  \o When(c.use_view_transition, Line("useViewTransition", <<"true">>))
                  \o LinesOf("fragments", lines(call.arg))
           /\ (c = MergeFragmentsConfig_default /\ call.arg = <<"<div>hi</div>">>) =>
                  Flatten(Block) =
                      "event: datastar-merge-fragments\ndata: fragments <div>hi</div>\n\n"

C7_Witness ==
    /\ Called
    /\ call.op = "merge_fragments"
    /\ call.config.merge_mode = "UpsertAttributes"
    /\ call.config.selector = Some(<<"a.b">>)
    /\ call.config.settle_duration = Millis(1000)
    /\ call.config.use_view_transition
    /\ call.arg = <<"<div>hi</div>", NL>>
    /\ Len(DataLines(Block)) = 5
    /\ DataLines(Block)[1] = Line("mergeMode", <<"upsertAttributes">>)
    /\ DataLines(Block)[3] = Line("settleDuration", <<"1000">>)

\* C8: execute_script emits a datastar-execute-script block whose data lines
\* are, in order, autoRemove false (only when auto_remove is false), one
\* attributes line per attribute in the order added, and one script line per
\* line of the script.
C8_ExecuteScriptLines ==
    (Called /\ call.op = "execute_script") =>
        LET c == call.config
        IN /\ IsPrefix(<<"event: ", "datastar-execute-script", NL>>, Block)
           /\ DataLinesWellFormed(Block, HeaderLines(call.op, c))
           /\ DataLines(Block) =
                  When(c.auto_remove = FALSE, Line("autoRemove", <<"false">>))
                  \o LinesOf("attributes", c.attributes)
                  \o LinesOf("script", lines(call.arg))

C8_Witness ==
    /\ Called
    /\ call.op = "execute_script"
    /\ call.config.auto_remove = TRUE
    /\ call.config.attributes = << <<"a.b">> >>
    /\ Len(lines(call.arg)) = 2
    /\ Len(DataLines(Block)) = 3
    /\ DataLines(Block)[1].key = "attributes"

\* C9: remove_fragments emits a datastar-remove-fragments block whose data
\* lines are, in order, selector (always), settleDuration (not 300) and
\* useViewTransition true (flag set).
C9_RemoveFragmentsLines ==
    (Called /\ call.op = "remove_fragments") =>
        LET c == call.config
        IN /\ IsPrefix(<<"event: ", "datastar-remove-fragments", NL>>, Block)
           /\ DataLinesWellFormed(Block, HeaderLines(call.op, c))
           /\ DataLines(Block) =
                  <<Line("selector", call.arg)>>
                  \o When(c.settle_duration # Millis(300),
                          Line("settleDuration", to_string(c.settle_duration)))
                  \o When(c.use_view_transition, Line("useViewTransition", <<"true">>))

C9_Witness ==
    /\ Called
    /\ call.op = "remove_fragments"
    /\ call.arg = <<"a.b">>
    /\ call.config.settle_duration # Millis(300)
    /\ call.config.use_view_transition
    /\ Len(DataLines(Block)) = 3
    /\ DataLines(Block)[1] = Line("selector", <<"a.b">>)

\* C10: merge_signals emits a datastar-merge-signals block whose data lines
\* are onlyIfMissing true (only when only_if_missing is set) followed by one
\* signals line per line of the signals text, in input order.
C10_MergeSignalsLines ==
    (Called /\ call.op = "merge_signals") =>
        LET c == call.config
        IN /\ IsPrefix(<<"event: ", "datastar-merge-signals", NL>>, Block)
           /\ DataLinesWellFormed(Block, HeaderLines(call.op, c))
           /\ DataLines(Block) =
                  When(c.only_if_missing, Line("onlyIfMissing", <<"true">>))
                  \o LinesOf("signals", lines(call.arg))

C10_Witness ==
    /\ Called
    /\ call.op = "merge_signals"
    /\ call.config.only_if_missing
    /\ call.arg = <<NL, "<div>hi</div>">>
    /\ DataLines(Block) =
           <<Line("onlyIfMissing", <<"true">>), Line("signals", <<>>),
             Line("signals", <<"<div>hi</div>">>)>>

\* C11: remove_signals emits a datastar-remove-signals block with exactly one
\* `data: paths <path>` line per element of paths, in the order given, and no
\* other data line; with defaults and paths ["a.b", "c"] the block is
\* "event: datastar-remove-signals\ndata: paths a.b\ndata: paths c\n\n".
C11_RemoveSignalsLines ==
    (Called /\ call.op = "remove_signals") =>
        LET c == call.config
        IN /\ IsPrefix(<<"event: ", "datastar-remove-signals", NL>>, Block)
           /\ DataLinesWellFormed(Block, HeaderLines(call.op, c))
           /\ Len(DataLines(Block)) = Len(call.arg)
           /\ \A i \in 1..Len(call.arg) :
                  DataLines(Block)[i] = Line("paths", call.arg[i])
           /\ (c = RemoveSignalsConfig_default /\ call.arg = << <<"a.b">>, <<"c">> >>) =>
                  Flatten(Block) =
                      "event: datastar-remove-signals\ndata: paths a.b\ndata: paths c\n\n"

C11_Witness ==
    /\ Called
    /\ call.op = "remove_signals"
    /\ call.config = RemoveSignalsConfig_default
    /\ call.arg = << <<"a.b">>, <<"c">> >>
    /\ Flatten(Block) = "event: datastar-remove-signals\ndata: paths a.b\ndata: paths c\n\n"

(***************************************************************************)
(* The lines of a payload, counted on the text itself: a line ends at a    *)
(* "\n" (or at a "\r\n"), and text after the last "\n" is a last line that *)
(* has no line ending.                                                     *)
(***************************************************************************)
InputLineCount(text) ==
    Cardinality(Positions(text, NL))
        + (IF text # <<>> /\ text[Len(text)] # NL THEN 1 ELSE 0)

InputLine(text, i) ==
    LET ends == Ascending(Positions(text, NL))
        first == IF i = 1 THEN 1 ELSE ends[i - 1] + 1
        raw == IF i <= Len(ends) THEN SubSeq(text, first, ends[i] - 1)
               ELSE SubSeq(text, first, Len(text))
    IN IF i <= Len(ends) /\ raw # <<>> /\ raw[Len(raw)] = CR
       THEN SubSeq(raw, 1, Len(raw) - 1)
       ELSE raw

HasKey(entry, k) == entry.key = k

PayloadLines(b, k) == SelectSeq(DataLines(b), LAMBDA entry : HasKey(entry, k))

PayloadOps == {"merge_fragments", "merge_signals", "execute_script"}

\* C12: for the fragment HTML, the signals JSON and the script body, the
\* number of data lines under the payload's key equals the number of lines of
\* the input, and the i-th such line carries the i-th input line.
C12_OneDataLinePerInputLine ==
    (Called /\ call.op \in PayloadOps) =>
        LET out == PayloadLines(Block, RequiredKey(call.op))
        IN /\ Len(out) = InputLineCount(call.arg)
           /\ \A i \in 1..Len(out) : out[i].value = InputLine(call.arg, i)

C12_Witness ==
    /\ Called
    /\ call.op = "execute_script"
    /\ call.arg = <<NL, "<div>hi</div>">>
    /\ InputLineCount(call.arg) = 2
    /\ PayloadLines(Block, "script") =
           <<Line("script", <<>>), Line("script", <<"<div>hi</div>">>)>>

\* The millisecond count of a Duration is above u32::MAX = 4294967295.
ExceedsU32Millis(d) ==
    \/ d.secs > 4294967
    \/ d.secs = 4294967 /\ d.nanos >= 296000000

DurationFields(c) == {"settle_duration", "retry_duration"} \cap DOMAIN c

\* C13: a settle or retry duration above u32::MAX milliseconds is rejected
\* by the setter call itself (it panics there and leaves no record to pass
\* on), so no generator operation ever runs with an out-of-range duration; a
\* duration of exactly u32::MAX milliseconds is accepted and stored.
C13_OverflowRejectedAtSetter ==
    [][/\ \A f \in DurationFields(cfg) : \A d \in Durations :
              SetDuration(cfg.kind, f, d) =>
                  IF ExceedsU32Millis(d)
                  THEN panicked' /\ cfg' = cfg /\ call' = call /\ stream' = stream
                  ELSE ~panicked' /\ cfg'[f] = as_millis(d)
       /\ (panicked /\ call = NoCall) => call' = NoCall
       /\ (call'.op # "none") =>
              \A f \in DurationFields(call'.config) :
                  \/ call'.config[f].thousands < 4294967
                  \/ /\ call'.config[f].thousands = 4294967
                     /\ call'.config[f].units <= 295]_vars

C13_Witness ==
    /\ panicked
    /\ cfg.kind = "MergeFragmentsConfig"
    /\ cfg.settle_duration = [thousands |-> 4294967, units |-> 295]
    /\ call = NoCall
    /\ stream = <<>>

\* ---------------------------------------------------------------------------
\* Request extractors (request.rs).  The target type T is the struct
\* Store { theme: String } of the documented scenario.  JSON text is a
\* sequence of tokens, a query string a sequence of those tokens, of names
\* and of the separators "&" and "=".

MaxParams == 2

Ok(v) == [kind |-> "Ok", value |-> v]
Err(e) == [kind |-> "Err", error |-> e]

JsonStrings == {"\"theme\"", "\"dark\"", "\"light\"", "\"foo\""}
JsonNumbers == {"1"}

\* The text between the quotes of a JSON string token.
unquote(token) ==
    CASE token = "\"theme\"" -> "theme"
      [] token = "\"dark\"" -> "dark"
      [] token = "\"light\"" -> "light"
      [] token = "\"foo\"" -> "foo"

\* The JSON documents a client sends.
JsonSamples ==
    {"dark", "light_extra", "spaced", "truncated", "wrong_type", "empty",
     "missing_field", "duplicate_field", "garbage"}

SampleText(id) ==
    CASE id = "dark" -> <<"{", "\"theme\"", ":", "\"dark\"", "}">>
      [] id = "light_extra" ->
             <<"{", "\"foo\"", ":", "1", ",", "\"theme\"", ":", "\"light\"", "}">>
      [] id = "spaced" -> <<"{", " ", "\"theme\"", ":", " ", "\"dark\"", "}">>
      [] id = "truncated" -> <<"{", "\"theme\"", ":">>
      [] id = "wrong_type" -> <<"{", "\"theme\"", ":", "1", "}">>
      [] id = "empty" -> <<>>
      [] id = "missing_field" -> <<"{", "}">>
      [] id = "duplicate_field" ->
             <<"{", "\"theme\"", ":", "\"dark\"", ",", "\"theme\"", ":", "\"light\"", "}">>
      [] id = "garbage" -> <<"%", "\"theme\"">>

\* What a client's percent-encoding makes of one chunk of a name or value.
percent_encode(chunk) ==
    CASE chunk = "{" -> "%7B"
      [] chunk = "}" -> "%7D"
      [] chunk = ":" -> "%3A"
      [] chunk = "," -> "%2C"
      [] chunk = " " -> "+"
      [] chunk = "%" -> "%25"
      [] chunk = "\"theme\"" -> "%22theme%22"
      [] chunk = "\"dark\"" -> "%22dark%22"
      [] chunk = "\"light\"" -> "%22light%22"
      [] chunk = "\"foo\"" -> "%22foo%22"
      [] chunk = "datastar" -> "data%73tar"
      [] OTHER -> chunk

ParamNames == {"datastar", "foo"}
Encodings == {"plain", "percent"}
Params == [name : ParamNames, sample : JsonSamples, encoding : Encodings]

EncodeText(text, encoding) ==
    IF encoding = "percent"
    THEN [i \in 1..Len(text) |-> percent_encode(text[i])]
    ELSE text

EncodeParam(p) ==
    EncodeText(<<p.name>>, p.encoding) \o <<"=">>
        \o EncodeText(SampleText(p.sample), p.encoding)

RECURSIVE EncodeQuery(_)
EncodeQuery(ps) ==
    IF ps = <<>> THEN <<>>
    ELSE IF Len(ps) = 1 THEN EncodeParam(ps[1])
    ELSE EncodeParam(ps[1]) \o <<"&">> \o EncodeQuery(Tail(ps))

ParamLists == StringsUpTo(Params, MaxParams)

\* A GET request: its URI has no query at all, or the encoded parameters.
GetRequests ==
    {[method |-> "GET", params |-> <<>>, uri |-> [query |-> None],
      body |-> [readable |-> TRUE, sample |-> "empty", bytes |-> <<>>]]}
    \cup
    {[method |-> "GET", params |-> ps, uri |-> [query |-> Some(EncodeQuery(ps))],
      body |-> [readable |-> TRUE, sample |-> "empty", bytes |-> <<>>]] :
        ps \in ParamLists}

\* A non-GET request: the state travels in the body, which may fail to be read.
PostRequests ==
    {[method |-> m, params |-> <<>>, uri |-> [query |-> None],
      body |-> [readable |-> r, sample |-> id, bytes |-> SampleText(id)]] :
        m \in {"POST", "PUT", "PATCH", "DELETE"}, r \in BOOLEAN, id \in JsonSamples}

Requests == GetRequests \cup PostRequests

\* form_urlencoded: "+" is a space and %XX is the byte XX; anything else,
\* a stray "%" included, stays as it is.
percent_decode(chunk) ==
    CASE chunk = "%7B" -> "{"
      [] chunk = "%7D" -> "}"
      [] chunk = "%3A" -> ":"
      [] chunk = "%2C" -> ","
      [] chunk = "+" -> " "
      [] chunk = "%25" -> "%"
      [] chunk = "%22theme%22" -> "\"theme\""
      [] chunk = "%22dark%22" -> "\"dark\""
      [] chunk = "%22light%22" -> "\"light\""
      [] chunk = "%22foo%22" -> "\"foo\""
      [] chunk = "data%73tar" -> "datastar"
      [] OTHER -> chunk

decode(text) == [i \in 1..Len(text) |-> percent_decode(text[i])]

FirstIndex(s, c) ==
    IF \E i \in 1..Len(s) : s[i] = c
    THEN CHOOSE i \in 1..Len(s) : s[i] = c /\ \A j \in 1..(i - 1) : s[j] # c
    ELSE 0

RECURSIVE split(_, _)
split(s, sep) ==
    IF FirstIndex(s, sep) = 0 THEN <<s>>
    ELSE <<SubSeq(s, 1, FirstIndex(s, sep) - 1)>>
             \o split(SubSeq(s, FirstIndex(s, sep) + 1, Len(s)), sep)

RECURSIVE concat(_)
concat(text) == IF text = <<>> THEN "" ELSE Head(text) \o concat(Tail(text))

\* form_urlencoded::parse: the non-empty pieces between "&", each cut at its
\* first "=", name and value decoded.
form_urlencoded_parse(input) ==
    LET pieces == SelectSeq(split(input, "&"), LAMBDA piece : piece # <<>>)
        pair(piece) ==
            IF FirstIndex(piece, "=") = 0
            THEN <<concat(decode(piece)), <<>> >>
            ELSE <<concat(decode(SubSeq(piece, 1, FirstIndex(piece, "=") - 1))),
                   decode(SubSeq(piece, FirstIndex(piece, "=") + 1, Len(piece)))>>
    IN [i \in 1..Len(pieces) |-> pair(pieces[i])]

\* serde_urlencoded::from_str::<Vec<(String, String)>>: every query string
\* deserializes into a list of pairs of strings.
serde_urlencoded_from_str(query_string) == Ok(form_urlencoded_parse(query_string))

\* serde_json::from_str::<Store>: one JSON object, whitespace between tokens
\* skipped, members "key": value separated by ","; the field theme must occur
\* exactly once and hold a string, other fields are ignored; nothing else
\* deserializes.
serde_json_from_str(text) ==
    LET t == SelectSeq(text, LAMBDA c : c # " ")
        inner == SubSeq(t, 2, Len(t) - 1)
        n == Len(inner)
        wellformed ==
            /\ Len(t) >= 2
            /\ t[1] = "{"
            /\ t[Len(t)] = "}"
            /\ (n = 0 \/ n % 4 = 3)
            /\ \A i \in 1..n :
                   CASE i % 4 = 1 -> inner[i] \in JsonStrings
                     [] i % 4 = 2 -> inner[i] = ":"
                     [] i % 4 = 3 -> inner[i] \in JsonStrings \cup JsonNumbers
                     [] OTHER -> inner[i] = ","
        themes == {i \in 1..n : i % 4 = 1 /\ inner[i] = "\"theme\""}
    IN IF /\ wellformed
          /\ Cardinality(themes) = 1
          /\ \A i \in themes : inner[i + 2] \in JsonStrings
       THEN Ok([theme |-> unquote(inner[(CHOOSE i \in themes : TRUE) + 2])])
       ELSE Err("serde_json::Error")

\* serde_json::from_slice: the same parse over the bytes of the body.
serde_json_from_slice(bytes) == serde_json_from_str(bytes)

\* Iterator::find(|(key, _)| key == "datastar"): the first such pair.
find(query_params, name) ==
    IF \E i \in 1..Len(query_params) : query_params[i][1] = name
    THEN Some(query_params[
             CHOOSE i \in 1..Len(query_params) :
                 /\ query_params[i][1] = name
                 /\ \A j \in 1..(i - 1) : query_params[j][1] # name])
    ELSE None

try_from_uri_FoundBeforeParsed(value) ==
    LET query_string == IF value.query = None THEN <<>> ELSE value.query[1]
        query_params == serde_urlencoded_from_str(query_string)
        datastar_json_string == find(query_params.value, "datastar")
    IN IF datastar_json_string = None
       THEN Err("FailedToDeserializeDatastarInnerJson")
       ELSE IF serde_json_from_str(datastar_json_string[1][2]).kind = "Err"
       THEN Err("DatastarQueryNotFound")
       ELSE Ok(serde_json_from_str(datastar_json_string[1][2]).value)

\* DatastarQuery::try_from_uri
try_from_uri(value) ==
    LET query_string == IF value.query = None THEN <<>> ELSE value.query[1]
        query_params == serde_urlencoded_from_str(query_string)
    IN IF query_params.kind = "Err"
       THEN Err("FailedToDeserializeDatastarQueryString")
       ELSE LET datastar_json_string == find(query_params.value, "datastar")
            IN IF datastar_json_string = None
               THEN Err("DatastarQueryNotFound")
               ELSE LET datastar_store ==
                            serde_json_from_str(datastar_json_string[1][2])
                    IN IF datastar_store.kind = "Err"
                       THEN Err("FailedToDeserializeDatastarInnerJson")
                       ELSE Ok(datastar_store.value)

DatastarQueryRejection ==
    {"FailedToDeserializeDatastarQueryString", "DatastarQueryNotFound",
     "FailedToDeserializeDatastarInnerJson"}

DatastarJsonRejection == {"FailedToDecodeBytes", "FailedToDeserializeJson"}

BAD_REQUEST == 400

\* The grave accent (U+0060) of the "not found" message, which a string
\* literal of this module cannot hold.
GRAVE == "<U+0060>"

\* The match of DatastarQueryRejection::into_response.
DatastarQueryRejection_msg(rejection) ==
    CASE rejection = "FailedToDeserializeDatastarQueryString" ->
             "Failed to deserialize datastar query string"
      [] rejection = "FailedToDeserializeDatastarInnerJson" ->
             "Failed to deserialize inner json of datastar query string"
      [] rejection = "DatastarQueryNotFound" ->
             "Query string with the format " \o GRAVE
                 \o "?datastar=<json> was not found" \o GRAVE

\* DatastarJsonRejection::into_response has one message for both variants.
DatastarJsonRejection_msg(rejection) == "Failed to deserialize json body"

InitRequest ==
    /\ cfg = NoConfig
    /\ call = NoCall
    /\ stream = <<>>
    /\ response = NoResponse
    /\ panicked = FALSE
    /\ request \in Requests
    /\ extracted = NoExtraction
    /\ reply = NoReply
    /\ Idle("stream")
    /\ Idle("message")

\* impl FromRequestParts for DatastarQuery<T>
DatastarQuery_from_request_parts ==
    /\ request # NoRequest
    /\ extracted = NoExtraction
    /\ extracted' = [extractor |-> "DatastarQuery"] @@ try_from_uri(request.uri)
    /\ UNCHANGED <<cfg, call, stream, response, panicked, request, reply,
                 stream_vars, message_vars>>

DatastarJson_from_request_ParseBeforeRead ==
    /\ request # NoRequest
    /\ extracted = NoExtraction
    /\ extracted' =
           [extractor |-> "DatastarJson"] @@
           (IF serde_json_from_slice(request.body.bytes).kind = "Err"
            THEN Err("FailedToDeserializeJson")
            ELSE IF ~request.body.readable
            THEN Err("FailedToDecodeBytes")
            ELSE Ok(serde_json_from_slice(request.body.bytes).value))
    /\ UNCHANGED <<cfg, call, stream, response, panicked, request, reply,
                 stream_vars, message_vars>>

\* impl FromRequest for DatastarJson<T>
DatastarJson_from_request ==
    /\ request # NoRequest
    /\ extracted = NoExtraction
    /\ extracted' =
           [extractor |-> "DatastarJson"] @@
           (IF ~request.body.readable
            THEN Err("FailedToDecodeBytes")
            ELSE LET value == serde_json_from_slice(request.body.bytes)
                 IN IF value.kind = "Err"
                    THEN Err("FailedToDeserializeJson")
                    ELSE Ok(value.value))
    /\ UNCHANGED <<cfg, call, stream, response, panicked, request, reply,
                 stream_vars, message_vars>>

\* impl IntoResponse for DatastarQueryRejection
DatastarQueryRejection_into_response ==
    /\ extracted.kind = "Err"
    /\ extracted.extractor = "DatastarQuery"
    /\ reply = NoReply
    /\ reply' = [kind |-> "Response", status |-> BAD_REQUEST,
                 body |-> DatastarQueryRejection_msg(extracted.error)]
    /\ UNCHANGED <<cfg, call, stream, response, panicked, request, extracted,
                 stream_vars, message_vars>>

\* impl IntoResponse for DatastarJsonRejection
DatastarJsonRejection_into_response ==
    /\ extracted.kind = "Err"
    /\ extracted.extractor = "DatastarJson"
    /\ reply = NoReply
    /\ reply' = [kind |-> "Response", status |-> BAD_REQUEST,
                 body |-> DatastarJsonRejection_msg(extracted.error)]
    /\ UNCHANGED <<cfg, call, stream, response, panicked, request, extracted,
                 stream_vars, message_vars>>

NextRequest ==
    \/ DatastarQuery_from_request_parts
    \/ DatastarJson_from_request
    \/ DatastarQueryRejection_into_response
    \/ DatastarJsonRejection_into_response

SpecRequest == InitRequest /\ [][NextRequest]_vars

\* ---------------------------------------------------------------------------
\* Claims about the request extractors.

Extracted(extractor) == extracted.kind # "none" /\ extracted.extractor = extractor

\* The theme a Store deserialized from the sample holds; None for a sample
\* that is no JSON object with exactly one string field theme.
SampleTheme(id) ==
    CASE id \in {"dark", "spaced"} -> Some("dark")
      [] id = "light_extra" -> Some("light")
      [] OTHER -> None

\* The positions of the parameters named datastar in the client's list.
Named(ps) == {i \in 1..Len(ps) : ps[i].name = "datastar"}

FirstNamed(ps) == ps[CHOOSE i \in Named(ps) : \A j \in Named(ps) : i <= j]

\* C14: DatastarQuery extraction gives DatastarQueryNotFound when the query
\* has no parameter named datastar, FailedToDeserializeDatastarInnerJson when
\* the parameter's value does not parse as JSON into the target type, and the
\* parsed value otherwise (?datastar={"theme":"dark"} gives theme "dark");
\* each error becomes a 400 response whose message is not the message of the
\* other cause.
C14_QueryExtraction ==
    Extracted("DatastarQuery") =>
        LET ps == request.params
        IN /\ (Named(ps) = {}) => extracted = [extractor |-> "DatastarQuery"] @@ Err("DatastarQueryNotFound")
           /\ (Named(ps) # {}) =>
                  IF SampleTheme(FirstNamed(ps).sample) = None
                  THEN extracted = [extractor |-> "DatastarQuery"]
                                       @@ Err("FailedToDeserializeDatastarInnerJson")
                  ELSE /\ extracted.kind = "Ok"
                       /\ extracted.value.theme = SampleTheme(FirstNamed(ps).sample)[1]
           /\ (reply # NoReply) =>
                  /\ extracted.kind = "Err"
                  /\ reply.status = 400
                  /\ \A other \in {"DatastarQueryNotFound",
                                   "FailedToDeserializeDatastarInnerJson"} :
                         other # extracted.error =>
                             reply.body # DatastarQueryRejection_msg(other)

C14_Witness ==
    /\ Extracted("DatastarQuery")
    /\ request.uri.query # None
    /\ Flatten(request.uri.query[1]) = "datastar={\"theme\":\"dark\"}"
    /\ extracted.kind = "Ok"
    /\ extracted.value.theme = "dark"

\* C15: DatastarJson extraction from a non-GET request gives
\* FailedToDecodeBytes when the body cannot be read, FailedToDeserializeJson
\* when the body is read but does not parse as JSON into the target type, and
\* the parsed value for a well-formed body; both errors become a 400 response.
C15_JsonExtraction ==
    (Extracted("DatastarJson") /\ request.method # "GET") =>
        LET body == request.body
        IN /\ ~body.readable =>
                  extracted = [extractor |-> "DatastarJson"] @@ Err("FailedToDecodeBytes")
           /\ (body.readable /\ SampleTheme(body.sample) = None) =>
                  extracted = [extractor |-> "DatastarJson"] @@ Err("FailedToDeserializeJson")
           /\ (body.readable /\ SampleTheme(body.sample) # None) =>
                  /\ extracted.kind = "Ok"
                  /\ extracted.value.theme = SampleTheme(body.sample)[1]
           /\ (reply # NoReply) => (extracted.kind = "Err" /\ reply.status = 400)

C15_Witness ==
    /\ Extracted("DatastarJson")
    /\ request.method = "POST"
    /\ ~request.body.readable
    /\ request.body.sample = "dark"
    /\ extracted.kind = "Err"
    /\ extracted.error = "FailedToDecodeBytes"
    /\ reply # NoReply
    /\ reply.status = 400

\* The body string a rejection variant of either enum is turned into.
RejectionBody(variant) ==
    IF variant \in DatastarQueryRejection
    THEN DatastarQueryRejection_msg(variant)
    ELSE DatastarJsonRejection_msg(variant)

\* C16: every rejection variant of DatastarQueryRejection and
\* DatastarJsonRejection becomes status 400 with the fixed body string of the
\* variant, and no other variant has the same body string.
C16_RejectionBodiesOneToOne ==
    (reply # NoReply) =>
        /\ extracted.kind = "Err"
        /\ reply.status = 400
        /\ reply.body = RejectionBody(extracted.error)
        /\ \A other \in DatastarQueryRejection \cup DatastarJsonRejection :
               other # extracted.error => RejectionBody(other) # reply.body

\* ---------------------------------------------------------------------------
\* DatastarMessage (message.rs): a String built by a constructor.

MergeStrategy ==
    {"MorphElement", "InnerHtml", "OuterHtml", "PrependElement", "AppendElement",
     "BeforeElement", "AfterElement", "DeleteElement", "AttributesOnly"}

MergeStrategy_as_datastar_name(self) ==
    CASE self = "MorphElement" -> "morph_element"
      [] self = "InnerHtml" -> "inner_html"
      [] self = "OuterHtml" -> "outer_html"
      [] self = "PrependElement" -> "prepend_element"
      [] self = "AppendElement" -> "append_element"
      [] self = "BeforeElement" -> "before_element"
      [] self = "AfterElement" -> "after_element"
      [] self = "DeleteElement" -> "delete_element"
      [] self = "AttributesOnly" -> "upsert_attributes"

FragmentConfig_default == [merge |-> None, selector |-> None, settle |-> None]

DatastarMessage(inner) == [inner |-> inner]

EVENT_FRAGMENT == <<"event: ", "datastar-fragment", NL>>
EVENT_SIGNAL == <<"event: ", "datastar-signal", NL>>

push_data(msg, key, val) == msg \o <<"data: ", key, " ">> \o val \o <<NL>>

new_fragment(fragment, config) ==
    LET inner0 == EVENT_FRAGMENT
        inner1 == IF config.merge # None
                  THEN push_data(inner0, "merge",
                                 <<MergeStrategy_as_datastar_name(config.merge[1])>>)
                  ELSE inner0
        inner2 == IF config.selector # None
                  THEN push_data(inner1, "selector", config.selector[1])
                  ELSE inner1
        inner3 == IF config.settle # None
                  THEN push_data(inner2, "settle", to_string(config.settle[1]))
                  ELSE inner2
        inner4 == IF fragment # None
                  THEN push_data(inner3, "fragment", fragment[1])
                  ELSE inner3
    IN DatastarMessage(inner4 \o <<NL>>)

new_redirect(path) ==
    DatastarMessage(push_data(EVENT_FRAGMENT, "redirect", path) \o <<NL>>)

new_error(msg) ==
    DatastarMessage(push_data(EVENT_FRAGMENT, "error", msg) \o <<NL>>)

into_string(self) == self.inner

\* ---------------------------------------------------------------------------
\* A streaming response being polled.  The body polls the stream; inside one
\* poll_next the generator future runs up to its next await.  The only await
\* of a generator operation is yield_item in send, which leaves the finished
\* event in the yielder's slot; poll_next returns that item and the adapter
\* turns it into one frame of the body.  Dropping the body drops the future
\* where it is suspended; it cannot happen inside a poll_next.

MaxCalls == 3

WithId(c) == [c EXCEPT !.event_id = Some(<<"a.b">>)]

\* The generator calls a handler makes on a connection.
StreamCalls ==
    {[op |-> "merge_fragments", arg |-> fragments, config |-> c] :
        fragments \in {<<"<div>hi</div>">>, <<"<div>hi</div>", NL, "<div>hi</div>">>},
        c \in {MergeFragmentsConfig_default, WithId(MergeFragmentsConfig_default)}}
    \cup
    {[op |-> "remove_fragments", arg |-> <<"a.b">>, config |-> c] :
        c \in {RemoveFragmentsConfig_default, WithId(RemoveFragmentsConfig_default)}}
    \cup
    {[op |-> "merge_signals", arg |-> <<"<div>hi</div>">>, config |-> c] :
        c \in {MergeSignalsConfig_default, WithId(MergeSignalsConfig_default)}}
    \cup
    {[op |-> "remove_signals", arg |-> << <<"a.b">>, <<"c">> >>, config |-> c] :
        c \in {RemoveSignalsConfig_default, WithId(RemoveSignalsConfig_default)}}
    \cup
    {[op |-> "execute_script", arg |-> <<"<div>hi</div>">>, config |-> c] :
        c \in {ExecuteScriptConfig_default, WithId(ExecuteScriptConfig_default)}}

\* The messages the stream of a StreamingDatastarResponse produces.
StreamMessages ==
    {[op |-> "new_redirect", arg |-> <<"a.b">>, config |-> NoConfig],
     [op |-> "new_error", arg |-> <<"a.b">>, config |-> NoConfig],
     [op |-> "new_fragment", arg |-> Some(<<"<div>hi</div>">>),
      config |-> FragmentConfig_default],
     [op |-> "new_fragment", arg |-> None,
      config |-> [FragmentConfig_default EXCEPT
                     !.merge = Some("DeleteElement"),
                     !.selector = Some(<<"a.b">>),
                     !.settle = Some(Millis(DEFAULT_SETTLE_DURATION))]]}

\* The item a call hands to the stream.
ItemOf(c) ==
    CASE c.op = "merge_fragments" -> merge_fragments(c.arg, c.config)
      [] c.op = "remove_fragments" -> remove_fragments(c.arg, c.config)
      [] c.op = "merge_signals" -> merge_signals(c.arg, c.config)
      [] c.op = "remove_signals" -> remove_signals(c.arg, c.config)
      [] c.op = "execute_script" -> execute_script(c.arg, c.config)
      [] c.op = "new_redirect" -> new_redirect(c.arg)
      [] c.op = "new_error" -> new_error(c.arg)
      [] c.op = "new_fragment" -> new_fragment(c.arg, c.config)

\* Yielder::yield_item: the item is the next item of the stream.
yield_item(items, item) == Append(items, item)

\* self.map(Ok::<_, Infallible>)
DatastarResponse_map(item) == Ok(item)

\* self.0.map(|msg| Ok::<Bytes, Infallible>(msg.into_string().into()))
StreamingDatastarResponse_map(msg) == Ok(into_string(msg))

from_stream_Merged(body, result) ==
    IF body = <<>> THEN <<result.value>>
    ELSE SubSeq(body, 1, Len(body) - 1) \o <<body[Len(body)] \o result.value>>

\* Body::from_stream: every Ok item of the stream is one frame of the body.
from_stream(body, result) == Append(body, result.value)

InitStream ==
    /\ cfg = NoConfig
    /\ call = NoCall
    /\ stream = <<>>
    /\ response \in
           {[kind |-> "DatastarResponse", headers |-> DatastarResponse_headers],
            [kind |-> "StreamingDatastarResponse",
             headers |-> StreamingDatastarResponse_headers]}
    /\ panicked = FALSE
    /\ Idle("request")
    /\ Idle("message")
    /\ pc = "start"
    /\ slot = <<>>
    /\ frames = <<>>
    /\ calls = <<>>

Suspended == pc \in {"start", "yield_item", "handler"} /\ slot = <<>>

\* The future is polled and reaches the await of send: the call's event has
\* been built and handed to the yielder.
Produce(c) ==
    /\ call' = c
    /\ calls' = Append(calls, c)
    /\ stream' = yield_item(stream, ItemOf(c))
    /\ slot' = Some(ItemOf(c))
    /\ pc' = "yield_item"
    /\ UNCHANGED <<cfg, response, panicked, frames, request_vars, message_vars>>

\* poll_next of a DatastarResponse during which the handler calls a
\* generator operation.
poll_next_generator_call ==
    /\ Suspended
    /\ response.kind = "DatastarResponse"
    /\ Len(calls) < MaxCalls
    /\ \E c \in StreamCalls : Produce(c)

\* poll_next of a StreamingDatastarResponse during which the stream produces
\* a DatastarMessage.
poll_next_message ==
    /\ Suspended
    /\ response.kind = "StreamingDatastarResponse"
    /\ Len(calls) < MaxCalls
    /\ \E c \in StreamMessages : Produce(c)

\* poll_next returns the item of the slot; the adapter maps it and the body
\* takes it as a frame.
poll_next_ready ==
    /\ slot # <<>>
    /\ frames' = from_stream(frames,
                     IF response.kind = "DatastarResponse"
                     THEN DatastarResponse_map(slot[1])
                     ELSE StreamingDatastarResponse_map(slot[1]))
    /\ slot' = <<>>
    /\ UNCHANGED <<cfg, call, stream, response, panicked, pc, calls,
                   request_vars, message_vars>>

\* poll_next during which the handler reaches an await of its own.
poll_next_pending ==
    /\ Suspended
    /\ pc # "handler"
    /\ pc' = "handler"
    /\ UNCHANGED <<cfg, call, stream, response, panicked, slot, frames, calls,
                   request_vars, message_vars>>

\* poll_next during which the handler returns: the stream has ended.
poll_next_done ==
    /\ Suspended
    /\ pc' = "done"
    /\ UNCHANGED <<cfg, call, stream, response, panicked, slot, frames, calls,
                   request_vars, message_vars>>

\* The connection goes away and the body is dropped with the future in it,
\* inside send at yield_item or between two calls.
drop_body ==
    /\ Suspended
    /\ pc' = IF pc = "yield_item" THEN "dropped in send" ELSE "dropped between calls"
    /\ UNCHANGED <<cfg, call, stream, response, panicked, slot, frames, calls,
                   request_vars, message_vars>>

NextStream ==
    \/ poll_next_generator_call
    \/ poll_next_message
    \/ poll_next_ready
    \/ poll_next_pending
    \/ poll_next_done
    \/ drop_body

SpecStream == InitStream /\ [][NextStream]_vars

\* ---------------------------------------------------------------------------
\* Claims about a streaming response.

Generating == response.kind = "DatastarResponse" /\ pc # "idle"

\* A whole event block: it opens with its event line and closes with the
\* empty line.
CompleteBlock(b) ==
    /\ Len(b) >= 4
    /\ b[1] = "event: "
    /\ b[3] = NL
    /\ b[Len(b) - 1] = NL
    /\ b[Len(b)] = NL

\* C17: at every point of a streaming response, also once the body has been
\* dropped between two generator calls or inside one, every frame handed to
\* the body is one complete event block; every generator call has yielded
\* exactly one block, and what the yielder holds is a complete block too.
C17_OnlyCompleteBlocksReachTheSink ==
    Generating =>
        /\ \A i \in 1..Len(frames) : CompleteBlock(frames[i])
        /\ (slot # <<>>) => CompleteBlock(slot[1])
        /\ Len(stream) = Len(calls)
        /\ \A i \in 1..Len(stream) : CompleteBlock(stream[i])
        /\ Len(frames) <= Len(calls)

C17_Witness ==
    /\ Generating
    /\ pc = "dropped in send"
    /\ Len(calls) = 2
    /\ Len(frames) = 2
    /\ calls[2].op = "merge_fragments"
    /\ calls[2].arg = <<"<div>hi</div>", NL, "<div>hi</div>">>

\* The text of the i-th item produced on the connection.
Produced(i) ==
    IF response.kind = "StreamingDatastarResponse" THEN stream[i].inner ELSE stream[i]

EventNameOf(c) ==
    IF c.op \in {"new_redirect", "new_error", "new_fragment"}
    THEN "datastar-fragment"
    ELSE EventName(c.op)

\* C18: the frames of the response body are exactly the blocks produced by
\* the calls made on the connection: one frame per block, in the order of
\* the calls, each frame equal to its block; only the block still held by
\* the yielder inside the current poll is not yet a frame.
C18_FramesAreTheBlocksProduced ==
    (pc # "idle") =>
        /\ Len(stream) = Len(calls)
        /\ Len(frames) = Len(stream) - (IF slot = <<>> THEN 0 ELSE 1)
        /\ \A i \in 1..Len(frames) :
               /\ frames[i] = Produced(i)
               /\ IsPrefix(<<"event: ", EventNameOf(calls[i]), NL>>, frames[i])

C18_Witness ==
    /\ response.kind = "DatastarResponse"
    /\ Len(calls) = 3
    /\ calls[1].op = "merge_fragments"
    /\ calls[2].op = "remove_signals"
    /\ calls[3] = calls[1]
    /\ slot = <<>>
    /\ Len(frames) = 3
    /\ frames[1] # frames[2]
    /\ frames[3] = frames[1]

\* C19: the block of a generator call depends on the call's arguments alone:
\* two equal calls on one generator, whatever was called in between, have
\* produced equal blocks; and a call appends its one block to what the
\* generator has yielded and changes nothing else.
C19_CallsAreIndependent ==
    [][Generating' =>
           /\ \A i, j \in 1..Len(calls') :
                  (calls'[i] = calls'[j]) => (stream'[i] = stream'[j])
           /\ (calls' # calls) =>
                  /\ calls' = Append(calls, call')
                  /\ Len(stream') = Len(stream) + 1
                  /\ SubSeq(stream', 1, Len(stream)) = stream
                  /\ slot' = Some(stream'[Len(stream')])
                  /\ frames' = frames
                  /\ response' = response
                  /\ cfg' = cfg
                  /\ panicked' = panicked]_vars

C19_Witness ==
    /\ Generating
    /\ Len(calls) = 3
    /\ calls[1] = [op |-> "remove_fragments", arg |-> <<"a.b">>,
                   config |-> WithId(RemoveFragmentsConfig_default)]
    /\ calls[2].op = "execute_script"
    /\ calls[3] = calls[1]
    /\ stream[3] = stream[1]
    /\ stream[2] # stream[1]

\* ---------------------------------------------------------------------------
\* The signal constructors of DatastarMessage: new_signal (message.rs) and
\* merge_signals (message/mod.rs) serialize a T: Serialize with serde_json.
\* A value of the serde data model is a record tagged by t.

MaxMessages == 2
MaxSerializations == 3

Str(s) == [t |-> "str", s |-> s]
U32(n) == [t |-> "u32", n |-> n]
Tuple(items) == [t |-> "seq", items |-> items]
Map(key, value) == [t |-> "map", key |-> key, value |-> value]
Struct(field, value) == [t |-> "struct", field |-> field, value |-> value]
\* A type whose Serialize impl answers Err(S::Error::custom(..)).
CustomError == [t |-> "custom_error"]

\* The values a handler serializes.
ObjectNames ==
    {"store", "text", "seq", "map_str_key", "map_int_key", "map_tuple_key",
     "store_of_map_tuple_key", "custom_error"}

Object(name) ==
    CASE name = "store" -> Struct("theme", Str(<<"dark">>))
      [] name = "text" -> Str(<<"a.b", NL, "c">>)
      [] name = "seq" -> Tuple(<<U32(1), Str(<<"dark">>)>>)
      [] name = "map_str_key" -> Map(Str(<<"a.b">>), U32(1))
      [] name = "map_int_key" -> Map(U32(1), U32(1))
      [] name = "map_tuple_key" -> Map(Tuple(<<U32(1), U32(1)>>), U32(1))
      [] name = "store_of_map_tuple_key" ->
             Struct("theme", Map(Tuple(<<U32(1), U32(1)>>), U32(1)))
      [] name = "custom_error" -> CustomError

\* serde_json writes a line break inside a string as an escape.
escape(s) ==
    [i \in 1..Len(s) |->
        CASE s[i] = NL -> "\\n"
          [] s[i] = CR -> "\\r"
          [] OTHER -> s[i]]

\* MapKeySerializer: a key is written as a JSON string; strings and integers
\* can be keys, a sequence or a map cannot.
serialize_key(key) ==
    CASE key.t = "str" -> Ok(<<"\"">> \o escape(key.s) \o <<"\"">>)
      [] key.t = "u32" -> Ok(<<"\"", ToString(key.n), "\"">>)
      [] OTHER -> Err("serde_json::Error")

RECURSIVE serde_json_to_string(_)
RECURSIVE serialize_items(_)

\* The elements of a sequence, separated by ","; the first error ends it.
serialize_items(items) ==
    IF items = <<>> THEN Ok(<<>>)
    ELSE LET first == serde_json_to_string(Head(items))
             rest == serialize_items(Tail(items))
         IN IF first.kind = "Err" THEN first
            ELSE IF rest.kind = "Err" THEN rest
            ELSE IF Tail(items) = <<>> THEN first
            ELSE Ok(first.value \o <<",">> \o rest.value)

\* serde_json::to_string: the compact JSON text of the value, or the error
\* of the first part that cannot be written.
serde_json_to_string(obj) ==
    CASE obj.t = "str" -> Ok(<<"\"">> \o escape(obj.s) \o <<"\"">>)
      [] obj.t = "u32" -> Ok(<<ToString(obj.n)>>)
      [] obj.t = "seq" ->
             LET items == serialize_items(obj.items)
             IN IF items.kind = "Err" THEN items
                ELSE Ok(<<"[">> \o items.value \o <<"]">>)
      [] obj.t = "map" ->
             LET key == serialize_key(obj.key)
                 value == serde_json_to_string(obj.value)
             IN IF key.kind = "Err" THEN key
                ELSE IF value.kind = "Err" THEN value
                ELSE Ok(<<"{">> \o key.value \o <<":">> \o value.value \o <<"}">>)
      [] obj.t = "struct" ->
             LET value == serde_json_to_string(obj.value)
             IN IF value.kind = "Err" THEN value
                ELSE Ok(<<"{", "\"", obj.field, "\"", ":">> \o value.value \o <<"}">>)
      [] obj.t = "custom_error" -> Err("serde_json::Error")

new_signal_ErrorSwallowed(obj) ==
    LET serialized_obj == serde_json_to_string(obj)
    IN Ok(DatastarMessage(
              EVENT_SIGNAL \o <<"data: ">>
                  \o (IF serialized_obj.kind = "Err" THEN <<"null">>
                      ELSE serialized_obj.value)
                  \o <<NL, NL>>))

\* DatastarMessage::new_signal (message.rs)
new_signal(obj) ==
    LET inner == EVENT_SIGNAL
        serialized_obj == serde_json_to_string(obj)
    IN IF serialized_obj.kind = "Err"
       THEN serialized_obj
       ELSE Ok(DatastarMessage(
                   inner \o <<"data: ">> \o serialized_obj.value \o <<NL, NL>>))

\* EVENT_SIGNAL of message/mod.rs
mod_EVENT_SIGNAL == <<"event: ", "datastar-merge-signals", NL>>

\* DatastarMessage::merge_signals (message/mod.rs)
mod_merge_signals(obj) ==
    LET inner == mod_EVENT_SIGNAL
        serialized_obj == serde_json_to_string(obj)
    IN IF serialized_obj.kind = "Err"
       THEN serialized_obj
       ELSE Ok(DatastarMessage(
                   inner \o <<"data: ">> \o serialized_obj.value \o <<NL, NL>>))

\* FullDatastarResponse::new_empty
new_empty == <<>>

push_msg_Replaced(self, msg) == into_string(msg)

\* FullDatastarResponse::push_msg
push_msg(self, msg) == self \o into_string(msg)

\* impl From<DatastarMessage> for FullDatastarResponse
From(value) == into_string(value)

\* FullDatastarResponse::into_string
FullDatastarResponse_into_string(self) == self

InitMessage ==
    /\ cfg = NoConfig
    /\ call = NoCall
    /\ stream = <<>>
    /\ response = NoResponse
    /\ panicked = FALSE
    /\ Idle("request")
    /\ Idle("stream")
    /\ message = NoMessage
    /\ full = new_empty
    /\ msgs = <<>>
    /\ to_string_calls = 0

\* A constructor returns: the handler holds its result.
Construct(op, arg, result) ==
    /\ call' = [op |-> op, arg |-> arg, config |-> NoConfig]
    /\ message' = result
    /\ UNCHANGED <<cfg, stream, response, panicked, full, msgs, request_vars,
                   stream_vars>>

DatastarMessage_new_signal ==
    /\ to_string_calls < MaxSerializations
    /\ to_string_calls' = to_string_calls + 1
    /\ \E name \in ObjectNames : Construct("new_signal", name, new_signal(Object(name)))

DatastarMessage_merge_signals ==
    /\ to_string_calls < MaxSerializations
    /\ to_string_calls' = to_string_calls + 1
    /\ \E name \in ObjectNames :
           Construct("merge_signals", name, mod_merge_signals(Object(name)))

DatastarMessage_new_redirect ==
    /\ UNCHANGED to_string_calls
    /\ Construct("new_redirect", <<"a.b">>, Ok(new_redirect(<<"a.b">>)))

DatastarMessage_new_error ==
    /\ UNCHANGED to_string_calls
    /\ Construct("new_error", <<"a.b">>, Ok(new_error(<<"a.b">>)))

DatastarMessage_new_fragment ==
    /\ UNCHANGED to_string_calls
    /\ \E c \in {c \in StreamMessages : c.op = "new_fragment"} :
           Construct("new_fragment", c.arg, Ok(new_fragment(c.arg, c.config)))

\* The number of messages pushed onto the response so far.
Pushed == Cardinality(Positions(full, "event: "))

\* The handler pushes the message it holds onto its FullDatastarResponse;
\* an Err holds no message to push.
FullDatastarResponse_push_msg ==
    /\ message.kind = "Ok"
    /\ Pushed < MaxMessages
    /\ full' = push_msg(full, message.value)
    /\ msgs' = Append(msgs, message.value)
    /\ message' = NoMessage
    /\ UNCHANGED <<cfg, call, stream, response, panicked, to_string_calls,
                   request_vars, stream_vars>>

\* The handler makes its FullDatastarResponse from the first message it holds
\* instead of pushing it onto an empty one.
FullDatastarResponse_from ==
    /\ message.kind = "Ok"
    /\ msgs = <<>>
    /\ full' = From(message.value)
    /\ msgs' = <<message.value>>
    /\ message' = NoMessage
    /\ UNCHANGED <<cfg, call, stream, response, panicked, to_string_calls,
                   request_vars, stream_vars>>

NextMessage ==
    \/ DatastarMessage_new_signal
    \/ DatastarMessage_merge_signals
    \/ DatastarMessage_new_redirect
    \/ DatastarMessage_new_error
    \/ DatastarMessage_new_fragment
    \/ FullDatastarResponse_from
    \/ FullDatastarResponse_push_msg

SpecMessage == InitMessage /\ [][NextMessage]_vars

\* ---------------------------------------------------------------------------
\* Claims about the signal constructors.

\* The JSON text of each value that has one.
ExpectedJson(name) ==
    CASE name = "store" -> Some("{\"theme\":\"dark\"}")
      [] name = "text" -> Some("\"a.b\\nc\"")
      [] name = "seq" -> Some("[1,\"dark\"]")
      [] name = "map_str_key" -> Some("{\"a.b\":1}")
      [] name = "map_int_key" -> Some("{\"1\":1}")
      [] OTHER -> None

SignalEventLine(op) ==
    IF op = "new_signal" THEN "event: datastar-signal\n"
    ELSE "event: datastar-merge-signals\n"

\* C20: a signal constructor whose value cannot be serialized returns Err:
\* there is no message, nothing is appended to a response, nothing panics and
\* the serialization has run once; the Err can never be pushed afterwards.
\* A value that serializes gives Ok with the complete block
\* "event: ...\ndata: <json>\n\n".
C20_SerializationFailureIsReturned ==
    [][/\ (to_string_calls' # to_string_calls) =>
              /\ call'.op \in {"new_signal", "merge_signals"}
              /\ to_string_calls' = to_string_calls + 1
              /\ full' = full
              /\ frames' = frames
              /\ stream' = stream
              /\ ~panicked'
              /\ IF ExpectedJson(call'.arg) = None
                 THEN message'.kind = "Err"
                 ELSE /\ message'.kind = "Ok"
                      /\ Flatten(message'.value.inner) =
                             SignalEventLine(call'.op) \o "data: "
                                 \o ExpectedJson(call'.arg)[1] \o "\n\n"
       /\ (message.kind = "Err") => full' = full]_vars

C20_Witness ==
    /\ call.op = "new_signal"
    /\ call.arg = "store_of_map_tuple_key"
    /\ message.kind = "Err"
    /\ to_string_calls = 2
    /\ Pushed = 1
    /\ Flatten(full) = "event: datastar-merge-signals\ndata: {\"theme\":\"dark\"}\n\n"

\* ---------------------------------------------------------------------------
\* Claims about FullDatastarResponse.

\* The texts of the messages, one after the other.
RECURSIVE TextsOf(_)
TextsOf(ms) == IF ms = <<>> THEN <<>> ELSE Head(ms).inner \o TextsOf(Tail(ms))

\* C21: FullDatastarResponse is append-only: an empty response holds the
\* empty string, into_string is at every moment the texts of the pushed
\* messages in push order, and what the response held before a step is an
\* unchanged prefix of what it holds after it.
C21_FullResponseIsAppendOnly ==
    [][/\ (msgs = <<>>) => FullDatastarResponse_into_string(full) = <<>>
       /\ FullDatastarResponse_into_string(full) = TextsOf(msgs)
       /\ FullDatastarResponse_into_string(full') = TextsOf(msgs')
       /\ IsPrefix(full, full')
       /\ (msgs' # msgs) =>
              /\ message.kind = "Ok"
              /\ msgs' = Append(msgs, message.value)]_vars

C21_Witness ==
    /\ Len(msgs) = 2
    /\ msgs[1] # msgs[2]
    /\ Flatten(FullDatastarResponse_into_string(full)) =
           "event: datastar-fragment\ndata: redirect a.b\n\n"
               \o "event: datastar-signal\ndata: {\"theme\":\"dark\"}\n\n"

\* ---------------------------------------------------------------------------
\* The trait-based encoders of DatastarMessage (message/fragments.rs,
\* message/signals.rs, message/script.rs).  Every option of their configs
\* is an Option that starts as None; an option that is Some is pushed as a
\* data line.

\* message/mod.rs names no EVENT_FRAGMENT_MERGE and no EVENT_SIGNAL_MERGE;
\* they carry the event names of the protocol.
EVENT_FRAGMENT_MERGE == <<"event: ", "datastar-merge-fragments", NL>>
EVENT_SIGNAL_MERGE == <<"event: ", "datastar-merge-signals", NL>>
EVENT_FRAGMENT_REMOVE == <<"event: ", "datastar-remove-fragments", NL>>
EVENT_SIGNAL_REMOVE == <<"event: ", "datastar-remove-signals", NL>>
EVENT_EXECUTE_SCRIPT == <<"event: ", "datastar-execute-script", NL>>

\* MergeStrategy::as_datastar_name of message/fragments.rs
fragments_as_datastar_name(self) ==
    CASE self = "MorphElement" -> "morph"
      [] self = "InnerHtml" -> "inner"
      [] self = "OuterHtml" -> "outer"
      [] self = "PrependElement" -> "prepend"
      [] self = "AppendElement" -> "append"
      [] self = "BeforeElement" -> "before"
      [] self = "AfterElement" -> "after"
      [] self = "DeleteElement" -> "delete"
      [] self = "AttributesOnly" -> "upsertAttributes"

\* bool::to_string
bool_to_string(b) == IF b THEN "true" ELSE "false"

\* The text pushed for a value of each type: a string as it is, a merge mode
\* by as_datastar_name, a bool and a u32 by to_string.
as_text(type, v) ==
    CASE type = "String" -> v
      [] type = "FragmentMergeMode" -> <<fragments_as_datastar_name(v)>>
      [] type = "bool" -> <<bool_to_string(v)>>
      [] type = "u32" -> to_string(v)

\* inner after `if let Some(v) = option { push_data(inner, key, as_text(type, v)) }`
push_some(inner, key, option, type) ==
    IF option # None THEN push_data(inner, key, as_text(type, option[1])) ELSE inner

\* [String]::join(" ")
RECURSIVE join(_, _)
join(items, sep) ==
    IF items = <<>> THEN <<>>
    ELSE IF Len(items) = 1 THEN items[1]
    ELSE items[1] \o <<sep>> \o join(Tail(items), sep)

\* The two options every config has, pushed first.
push_common(inner, config) ==
    push_some(push_some(inner, "eventId", config.event_id, "String"),
              "retryDuration", config.retry_duration, "u32")

FragmentsMessage_merge_fragments(fragments, config) ==
    LET inner1 == push_common(EVENT_FRAGMENT_MERGE, config)
        inner2 == push_some(inner1, "merge", config.merge_mode, "FragmentMergeMode")
        inner3 == push_some(inner2, "selector", config.selector, "String")
        inner4 == push_some(inner3, "settleDuration", config.settle_duration, "u32")
        inner5 == push_some(inner4, "useViewTransition", config.use_view_transition,
                            "bool")
    IN DatastarMessage(push_data(inner5, "fragments", fragments) \o <<NL>>)

FragmentsMessage_remove_fragments(selector, config) ==
    LET inner1 == push_common(EVENT_FRAGMENT_REMOVE, config)
        inner2 == push_some(inner1, "settleDuration", config.settle_duration, "u32")
        inner3 == push_some(inner2, "useViewTransition", config.use_view_transition,
                            "bool")
    IN DatastarMessage(push_data(inner3, "selector", selector) \o <<NL>>)

SignalsMessage_merge_signals(data, config) ==
    LET inner1 == push_common(EVENT_SIGNAL_MERGE, config)
        inner2 == push_some(inner1, "onlyIfMissing", config.only_if_missing, "bool")
    IN DatastarMessage(push_data(inner2, "data", data) \o <<NL>>)

SignalsMessage_remove_signals(paths, config) ==
    LET inner1 == push_common(EVENT_SIGNAL_REMOVE, config)
    IN DatastarMessage(push_data(inner1, "paths", join(paths, " ")) \o <<NL>>)

ExecuteScriptMessage_execute_script(script, config) ==
    LET inner1 == push_common(EVENT_EXECUTE_SCRIPT, config)
        inner2 == push_some(inner1, "autoRemove", config.auto_remove, "bool")
        inner3 == push_some(inner2, "attributes", config.attributes, "String")
    IN DatastarMessage(push_data(inner3, "script", script) \o <<NL>>)

\* The settings of an option the model explores.
Opt(values) == {None} \cup {Some(v) : v \in values}

CommonOptions ==
    [event_id : Opt({<<"a.b">>}),
     retry_duration : Opt({Millis(DEFAULT_RETRY_DURATION), Millis(2000)})]

\* The configs the builders of message/*.rs can make, per encoder.
OptionConfigs(op) ==
    LET with(more) == {common @@ m : common \in CommonOptions, m \in more}
    IN CASE op = "merge_fragments" ->
                with([merge_mode : Opt({"MorphElement", "AttributesOnly"}),
                      selector : Opt({<<"a.b">>}),
                      settle_duration : Opt({Millis(DEFAULT_SETTLE_DURATION)}),
                      use_view_transition : Opt({TRUE})])
         [] op = "remove_fragments" ->
                with([settle_duration : Opt({Millis(DEFAULT_SETTLE_DURATION)}),
                      use_view_transition : Opt(BOOLEAN)])
         [] op = "merge_signals" -> with([only_if_missing : Opt(BOOLEAN)])
         [] op = "remove_signals" -> with({<<>>})
         [] op = "execute_script" ->
                with([auto_remove : Opt(BOOLEAN), attributes : Opt({<<"a.b">>})])

\* A trait constructor returns its message to the handler.
Encode(op, arg, config, msg) ==
    /\ call' = [op |-> op, arg |-> arg, config |-> config]
    /\ message' = Ok(msg)
    /\ UNCHANGED <<cfg, stream, response, panicked, full, msgs, to_string_calls,
                   request_vars, stream_vars>>

DatastarMessage_merge_fragments ==
    /\ message = NoMessage
    /\ \E fragments \in Payloads, config \in OptionConfigs("merge_fragments") :
           Encode("merge_fragments", fragments, config,
                  FragmentsMessage_merge_fragments(fragments, config))

DatastarMessage_remove_fragments ==
    /\ message = NoMessage
    /\ \E selector \in Values, config \in OptionConfigs("remove_fragments") :
           Encode("remove_fragments", selector, config,
                  FragmentsMessage_remove_fragments(selector, config))

DatastarMessage_trait_merge_signals ==
    /\ message = NoMessage
    /\ \E data \in Payloads, config \in OptionConfigs("merge_signals") :
           Encode("merge_signals", data, config,
                  SignalsMessage_merge_signals(data, config))

DatastarMessage_remove_signals ==
    /\ message = NoMessage
    /\ \E paths \in PathLists, config \in OptionConfigs("remove_signals") :
           Encode("remove_signals", paths, config,
                  SignalsMessage_remove_signals(paths, config))

DatastarMessage_execute_script ==
    /\ message = NoMessage
    /\ \E script \in Payloads, config \in OptionConfigs("execute_script") :
           Encode("execute_script", script, config,
                  ExecuteScriptMessage_execute_script(script, config))

NextEncoders ==
    \/ DatastarMessage_merge_fragments
    \/ DatastarMessage_remove_fragments
    \/ DatastarMessage_trait_merge_signals
    \/ DatastarMessage_remove_signals
    \/ DatastarMessage_execute_script

SpecEncoders == InitMessage /\ [][NextEncoders]_vars

\* ---------------------------------------------------------------------------
\* Claims about the trait-based encoders.

TraitOps ==
    {"merge_fragments", "remove_fragments", "merge_signals", "remove_signals",
     "execute_script"}

\* The header the common rule asks for: the event line, the id line when an
\* id is set, the retryDuration line when a duration other than 1000 is set.
CommonHeader(op, c) ==
    <<"event: ", EventName(op), NL>>
        \o (IF c.event_id # None THEN <<"id: ">> \o c.event_id[1] \o <<NL>> ELSE <<>>)
        \o (IF c.retry_duration \notin {None, Some(Millis(1000))}
            THEN <<"retryDuration: ">> \o to_string(c.retry_duration[1]) \o <<NL>>
            ELSE <<>>)

\* C22: a message of a trait-based encoder opens with the event line, then
\* `id: <event_id>` when event_id is set, then `retryDuration: <ms>` when
\* retry_duration is set to a value other than the default; the data lines
\* follow, and none of them carries the id or the retry duration.
C22_TraitEncodersFollowHeaderRule ==
    (message.kind = "Ok" /\ call.op \in TraitOps /\ call.config # NoConfig) =>
        LET b == message.value.inner
            h == CommonHeader(call.op, call.config)
        IN /\ IsPrefix(h, b)
           /\ Len(b) >= Len(h) + 2
           /\ b[Len(h) + 1] = "data: "
           /\ \A i \in 1..(Len(b) - 1) :
                  b[i] = "data: " => b[i + 1] \notin {"eventId", "retryDuration"}

(***************************************************************************)
(* Payload lines (generator.rs 40-42, 59-83, 165-181).                     *)
(***************************************************************************)
\* The keys an event kind may put on a data line.
KeysOf(op) ==
    CASE op = "merge_fragments" ->
             {"mergeMode", "selector", "settleDuration", "useViewTransition", "fragments"}
      [] op = "remove_fragments" -> {"selector", "settleDuration", "useViewTransition"}
      [] op = "merge_signals" -> {"onlyIfMissing", "signals"}
      [] op = "remove_signals" -> {"paths"}
      [] op = "execute_script" -> {"autoRemove", "attributes", "script"}

\* The event id, the selector, every path and every attribute of the call are
\* free of line breaks; the payload is left unconstrained.
OptionsOnOneLine ==
    LET c == call.config
    IN /\ (c.event_id # None) => ~HasLineBreak(c.event_id[1])
       /\ ("selector" \in DOMAIN c /\ c.selector # None) => ~HasLineBreak(c.selector[1])
       /\ (call.op = "remove_fragments") => ~HasLineBreak(call.arg)
       /\ (call.op = "remove_signals") =>
              \A i \in 1..Len(call.arg) : ~HasLineBreak(call.arg[i])
       /\ ("attributes" \in DOMAIN c) =>
              \A i \in 1..Len(c.attributes) : ~HasLineBreak(c.attributes[i])

\* C23: when the event id, the selector, every path and every attribute hold
\* no line break, then for any payload (empty lines, a trailing newline and
\* CRLF included) every line between the header lines and the terminating
\* blank line is `data: <key> <value>` with a key of the event kind's fixed
\* key set, and no value holds a line-break character.
C23_PayloadNeverBreaksFraming ==
    (Called /\ OptionsOnOneLine) =>
        /\ DataLinesWellFormed(Block, HeaderLines(call.op, call.config))
        /\ \A j \in 1..Len(DataLines(Block)) :
               /\ DataLines(Block)[j].key \in KeysOf(call.op)
               /\ ~HasLineBreak(DataLines(Block)[j].value)

(***************************************************************************)
(* Stored durations and default suppression (fragments.rs 82-106,          *)
(* generator.rs 36-38, 69-73).                                             *)
(***************************************************************************)
\* The whole milliseconds of a Duration, read off its seconds and nanoseconds.
WholeMillis(d) == [thousands |-> d.secs, units |-> (d.nanos - (d.nanos % 1000000)) \div 1000000]

\* The settleDuration values on the data lines of a block.
SettleValues(b) ==
    LET ls == DataLines(b)
    IN {ls[j].value : j \in {i \in 1..Len(ls) : ls[i].key = "settleDuration"}}

SettleLineCount(b) ==
    Cardinality({i \in 1..Len(DataLines(b)) : DataLines(b)[i].key = "settleDuration"})

\* C24: a duration setter stores the duration cut down to whole milliseconds,
\* and a line is suppressed by comparing that stored value: a retry duration
\* stored as 1000 (a settle duration stored as 300), set or left unset, gives
\* no line, and every other in-range value v gives the one line with the
\* decimal digits of v.
C24_StoredMillisDecideTheLine ==
    [][/\ \A f \in DurationFields(cfg) : \A d \in Durations :
              (SetDuration(cfg.kind, f, d) /\ ~ExceedsU32Millis(d)) =>
                  /\ cfg'[f] = WholeMillis(d)
                  /\ \A g \in DurationFields(cfg) \ {f} : cfg'[g] = cfg[g]
       /\ (call'.op # "none") =>
              LET c == call'.config
                  b == stream'[1]
              IN /\ IF c.retry_duration = Millis(1000)
                    THEN Positions(b, "retryDuration: ") = {}
                    ELSE /\ Cardinality(Positions(b, "retryDuration: ")) = 1
                         /\ \A i \in Positions(b, "retryDuration: ") :
                                /\ <<b[i + 1]>> = to_string(c.retry_duration)
                                /\ b[i + 2] = NL
                 /\ ("settle_duration" \in DOMAIN c) =>
                        IF c.settle_duration = Millis(300)
                        THEN SettleLineCount(b) = 0
                        ELSE /\ SettleLineCount(b) = 1
                             /\ SettleValues(b) = {to_string(c.settle_duration)}
                 /\ ("settle_duration" \notin DOMAIN c) => SettleLineCount(b) = 0]_vars

\* A retry duration stored as 1000 gives no line while a settle duration of
\* the same 1000 ms, which only a setter can store, gives `settleDuration 1000`.
C24_Witness ==
    /\ Called
    /\ call.config.retry_duration = Millis(1000)
    /\ "settle_duration" \in DOMAIN call.config
    /\ call.config.settle_duration = Millis(1000)
    /\ Positions(Block, "retryDuration: ") = {}
    /\ SettleValues(Block) = {<<"1000">>}

(***************************************************************************)
(* The order of the failures of try_from_uri (request.rs 54-69).           *)
(***************************************************************************)
\* The query holds a "%" that does not start a %XX escape.
InvalidUrlEncoding(uri) ==
    /\ uri.query # None
    /\ \E i \in 1..Len(uri.query[1]) : uri.query[1][i] = "%"

\* C25: try_from_uri reports its failures in a fixed order: a query string
\* that is not valid url-encoding gives FailedToDeserializeDatastarQueryString
\* even when it also lacks a datastar key; otherwise a missing datastar key,
\* an absent query included, gives DatastarQueryNotFound; otherwise, with
\* several datastar parameters, only the value of the first one is parsed.
C25_FailuresInFixedOrder ==
    Extracted("DatastarQuery") =>
        LET ps == request.params
            result(r) == extracted = [extractor |-> "DatastarQuery"] @@ r
        IN IF InvalidUrlEncoding(request.uri)
           THEN result(Err("FailedToDeserializeDatastarQueryString"))
           ELSE IF Named(ps) = {}
           THEN result(Err("DatastarQueryNotFound"))
           ELSE IF SampleTheme(FirstNamed(ps).sample) = None
           THEN result(Err("FailedToDeserializeDatastarInnerJson"))
           ELSE /\ extracted.kind = "Ok"
                /\ extracted.value.theme = SampleTheme(FirstNamed(ps).sample)[1]

(***************************************************************************)
(* The setters of the options records (fragments.rs 66-107, scripts.rs     *)
(* 24-52, signals.rs 22-45).                                               *)
(***************************************************************************)
\* The step keeps the record's kind and every field but f, and touches
\* nothing outside the record (a duration setter may panic).
OnlyChanges(f) ==
    /\ cfg.kind # "none"
    /\ f \in DOMAIN cfg
    /\ DOMAIN cfg' = DOMAIN cfg
    /\ \A g \in DOMAIN cfg \ {f} : cfg'[g] = cfg[g]
    /\ call' = call
    /\ stream' = stream
    /\ response' = response

\* The step stores one of the values in the field f.
Stores(f, values) == OnlyChanges(f) /\ cfg'[f] \in values

StoredMillis == {WholeMillis(d) : d \in {e \in Durations : ~ExceedsU32Millis(e)}}

\* C26: each scalar setter (merge_mode, selector, settle_duration,
\* use_view_transition, only_if_missing, auto_remove, event_id,
\* retry_duration) overwrites its own field with its argument and leaves every
\* other field as it was, so the last call for a field wins and the order of
\* setters of different fields does not matter; attribute() appends, so the
\* attributes are the arguments in call order.
C26_SettersTouchOnlyTheirField ==
    [][/\ MergeFragmentsConfig_merge_mode => Stores("merge_mode", FragmentMergeMode)
       /\ MergeFragmentsConfig_selector => Stores("selector", {Some(v) : v \in Values})
       /\ (MergeFragmentsConfig_settle_duration \/ RemoveFragmentsConfig_settle_duration) =>
              /\ OnlyChanges("settle_duration")
              /\ ~panicked' => cfg'.settle_duration \in StoredMillis
       /\ (MergeFragmentsConfig_use_view_transition
               \/ RemoveFragmentsConfig_use_view_transition) =>
              Stores("use_view_transition", BOOLEAN)
       /\ MergeSignalsConfig_only_if_missing => Stores("only_if_missing", BOOLEAN)
       /\ ExecuteScriptConfig_auto_remove => Stores("auto_remove", BOOLEAN)
       /\ (MergeFragmentsConfig_event_id \/ RemoveFragmentsConfig_event_id
               \/ MergeSignalsConfig_event_id \/ RemoveSignalsConfig_event_id
               \/ ExecuteScriptConfig_event_id) =>
              Stores("event_id", {Some(v) : v \in Values})
       /\ (MergeFragmentsConfig_retry_duration \/ RemoveFragmentsConfig_retry_duration
               \/ MergeSignalsConfig_retry_duration \/ RemoveSignalsConfig_retry_duration
               \/ ExecuteScriptConfig_retry_duration) =>
              /\ OnlyChanges("retry_duration")
              /\ ~panicked' => cfg'.retry_duration \in StoredMillis
       /\ ExecuteScriptConfig_attribute =>
              /\ OnlyChanges("attributes")
              /\ Len(cfg'.attributes) = Len(cfg.attributes) + 1
              /\ IsPrefix(cfg.attributes, cfg'.attributes)
              /\ cfg'.attributes[Len(cfg'.attributes)] \in Values
       /\ (cfg.kind # "none" /\ cfg'.kind = cfg.kind) =>
              Cardinality({g \in DOMAIN cfg : cfg'[g] # cfg[g]}) <= 1
       /\ (call'.op # "none" /\ call.op = "none") => call'.config = cfg]_vars

\* An ExecuteScriptConfig whose two attributes were appended in that order and
\* whose other fields each hold what their own setter stored.
C26_Witness ==
    /\ cfg.kind = "ExecuteScriptConfig"
    /\ cfg.attributes = << <<"a.b">>, <<NL>> >>
    /\ cfg.auto_remove = FALSE
    /\ cfg.event_id = Some(<<"a.b">>)
    /\ cfg.retry_duration = Millis(300)

====
